---- MODULE Spec2Model ----
(***************************************************************************)
(* Hybrid cache of the CRM client: MemoryCache (tier 1), StorageCache over *)
(* localStorage (tier 2), RequestDeduplicator and the cachedFetch          *)
(* orchestrator of src/lib/cache.  Promise reactions are modelled one      *)
(* microtask at a time, so that other calls can run between the settlement *)
(* of a fetch, the clean-up of the registry and the resumption of each     *)
(* awaiting caller.                                                        *)
(***************************************************************************)
EXTENDS Integers, Sequences, FiniteSets, TLC

\* ---------------------------------------------------------------- bounds
\* last value of the clock
MaxTime == 1

\* number of cachedFetch calls that reach the deduplicator (calls answered by
\* a cache tier are not counted); at most as many fetcher invocations
MaxCalls == 2

\* ------------------------------------------------------------ value sets
\* Cache keys are strings, written as sequences of tokens.
Keys == { <<"c", "1">> }

\* default prefix of StorageCache, one token
Prefix == << "crm_cache_" >>

\* key used by the availability probe
TestKey == << "__storage_test__" >>

Undefined == "undefined"

\* what a fetcher may resolve with: a JSON-safe value, undefined, and a
\* value JSON cannot represent (NaN is serialised as null)
FetchResults == { "v1", Undefined, "NaN" }

Errors == { "e1" }

\* { memoryTtl, storageTtl } pairs passed by callers
Configs == { [memoryTtl |-> 0, storageTtl |-> 1] }

\* outcome of one localStorage.setItem attempt
WriteOutcomes == { "ok", "quota", "error" }

\* outcomes of the up to three setItem attempts of one StorageCache.set; an
\* attempt that is not made is listed as "ok"
WriteAttempts ==
    { outs \in [1..3 -> WriteOutcomes] :
        /\ (outs[1] # "quota" => outs[2] = "ok")
        /\ (outs[2] # "quota" => outs[3] = "ok") }

\* outcome of the setItem of the availability probe, drawn only while the
\* probe has not run
ProbeOutcomes(avail) == IF avail = "null" THEN BOOLEAN ELSE { TRUE }

NoValue == "none"

\* a promise that has not settled
NoOutcome == << "none", NoValue >>

\* ------------------------------------------------------------------ state
VARIABLES
    now,                  \* Date.now()
    cache,                \* MemoryCache.cache : key -> CacheEntry
    localStorage,         \* the browser's localStorage : full key -> raw text
    storageAvailable,     \* StorageCache.storageAvailable : "null" | "true" | "false"
    pending,              \* RequestDeduplicator.pending : key -> request id
    lastFetchTimestamps,  \* index.ts lastFetchTimestamps : key -> ms
    requests,             \* the promises created by dedupe, by id
    calls,                \* the cachedFetch invocations that reached dedupe, by id;
                          \* lookupChanged: the call's own tier lookups changed a tier
    fetchCount,           \* number of fetcher invocations per key
    clearedInFlight,      \* key -> clearAllCaches() ran while a fetch of the key was unsettled
    ret                   \* what the cachedFetch that completed in the last step returned

vars == << now, cache, localStorage, storageAvailable, pending,
           lastFetchTimestamps, requests, calls, fetchCount, clearedInFlight,
           ret >>

\* ------------------------------------------------------------ Map helpers
MapSet(m, k, v) == [x \in (DOMAIN m) \cup {k} |-> IF x = k THEN v ELSE m[x]]

MapDelete(m, k) == [x \in (DOMAIN m) \ {k} |-> m[x]]

EmptyMap == [x \in {} |-> 0]

startsWith(s, p) == Len(s) >= Len(p) /\ SubSeq(s, 1, Len(p)) = p

\* ------------------------------------------------------------ MemoryCache
\* MemoryCache.get: the lookup result and the map after lazy eviction
\* an expiry test that already expires an entry whose age equals its TTL
MemoryIsExpired_AtTtl(entry, t) == t - entry.timestamp >= entry.ttl

MemoryIsExpired(entry, t) == t - entry.timestamp > entry.ttl

\* a get that removes the entry it returns
MemoryGet_Consumes(c, key, t) ==
    IF key \notin DOMAIN c
    THEN [hit |-> FALSE, data |-> Undefined, timestamp |-> 0, cache |-> c]
    ELSE IF MemoryIsExpired(c[key], t)
         THEN [hit |-> FALSE, data |-> Undefined, timestamp |-> 0,
               cache |-> MapDelete(c, key)]
         ELSE [hit |-> TRUE, data |-> c[key].data,
               timestamp |-> c[key].timestamp, cache |-> MapDelete(c, key)]

MemoryGet(c, key, t) ==
    IF key \notin DOMAIN c
    THEN [hit |-> FALSE, data |-> Undefined, timestamp |-> 0, cache |-> c]
    ELSE IF MemoryIsExpired(c[key], t)
         THEN [hit |-> FALSE, data |-> Undefined, timestamp |-> 0,
               cache |-> MapDelete(c, key)]
         ELSE [hit |-> TRUE, data |-> c[key].data,
               timestamp |-> c[key].timestamp, cache |-> c]

\* a set that does not overwrite an entry already in the map
MemorySet_KeepsExisting(c, key, data, ttl, t) ==
    IF key \in DOMAIN c THEN c
    ELSE MapSet(c, key, [data |-> data, timestamp |-> t, ttl |-> ttl])

MemorySet(c, key, data, ttl, t) ==
    MapSet(c, key, [data |-> data, timestamp |-> t, ttl |-> ttl])

\* an invalidate that empties the map
MemoryInvalidate_Clears(c, key) == EmptyMap

MemoryInvalidate(c, key) == MapDelete(c, key)

MemoryClear(c) == EmptyMap

\* ----------------------------------------------------------- StorageCache
\* a key mapping that does not prepend the prefix
getFullKey_NoPrefix(key) == key

getFullKey(key) == Prefix \o key

\* JSON.stringify of a CacheEntry: a property whose value is undefined is
\* left out, NaN is written as null
JSONStringify(entry) ==
    [ parses    |-> TRUE,
      hasData   |-> entry.data # Undefined,
      data      |-> IF entry.data = "NaN" THEN "null" ELSE entry.data,
      timestamp |-> entry.timestamp,
      ttl       |-> entry.ttl ]

\* JSON.parse of a raw text that parses; a missing property reads undefined
JSONParse(raw) ==
    [ data      |-> IF raw.hasData THEN raw.data ELSE Undefined,
      timestamp |-> raw.timestamp,
      ttl       |-> raw.ttl ]

\* an expiry test that expires an entry at the moment its ttl is reached
StorageIsExpired_AtTtl(entry, t) == t >= entry.timestamp + entry.ttl

\* a number property that a parsed record lacks: it reads undefined and
\* turns every sum it enters into NaN
NotANumber == -1

\* a + b of JavaScript numbers
Plus(a, b) == IF a = NotANumber \/ b = NotANumber THEN NotANumber ELSE a + b

\* a > b of JavaScript numbers: false when an operand is NaN
GreaterThan(a, b) == a # NotANumber /\ b # NotANumber /\ a > b

StorageIsExpired(entry, t) ==
    GreaterThan(t, Plus(entry.timestamp, entry.ttl))

\* isStorageAvailable: the probe runs only while the flag is null; probeOk is
\* whether its setItem succeeded.  A successful probe ends with
\* removeItem('__storage_test__').
\* an availability check that runs the probe on every use
ProbeAvailable_Reprobes(avail, probeOk) ==
    IF probeOk THEN "true" ELSE "false"

ProbeAvailable(avail, probeOk) ==
    IF avail # "null" THEN avail
    ELSE IF probeOk THEN "true" ELSE "false"

ProbeStore(store, avail, probeOk) ==
    IF avail = "null" /\ probeOk THEN MapDelete(store, TestKey) ELSE store

getAllCacheKeys(store) == { k \in DOMAIN store : startsWith(k, Prefix) }

\* a clear that empties the whole storage
StorageClearKeys_All(store) == EmptyMap

StorageClearKeys(store) ==
    [k \in (DOMAIN store) \ getAllCacheKeys(store) |-> store[k]]

\* clearExpired: drops the prefixed entries that do not parse or are expired
clearExpired(store, t) ==
    [k \in { x \in DOMAIN store :
               ~ ( startsWith(x, Prefix)
                   /\ ( ~store[x].parses
                        \/ StorageIsExpired(JSONParse(store[x]), t) ) ) }
       |-> store[k]]

\* a quota recovery that clears the cache but omits the final retry
handleQuotaExceeded_NoFinalRetry(store, fullKey, raw, outs, t) ==
    LET swept == clearExpired(store, t) IN
    IF outs[2] = "ok" THEN MapSet(swept, fullKey, raw)
    ELSE IF outs[2] # "quota" THEN swept
    ELSE StorageClearKeys(swept)

\* a quota recovery that clears every prefixed key before its first retry
handleQuotaExceeded_ClearsFirst(store, fullKey, raw, outs, t) ==
    LET cleared == StorageClearKeys(store) IN
    IF outs[2] = "ok" THEN MapSet(cleared, fullKey, raw)
    ELSE IF outs[2] # "quota" THEN cleared
    ELSE IF outs[3] = "ok" THEN MapSet(cleared, fullKey, raw) ELSE cleared

\* handleQuotaExceeded: sweep the expired entries, retry; on a second quota
\* error clear every prefixed key and retry a last time.  outs[2], outs[3]
\* are the outcomes of the two retries.
handleQuotaExceeded(store, fullKey, raw, outs, t) ==
    LET swept == clearExpired(store, t) IN
    IF outs[2] = "ok" THEN MapSet(swept, fullKey, raw)
    ELSE IF outs[2] # "quota" THEN swept
    ELSE LET cleared == StorageClearKeys(swept) IN
         IF outs[3] = "ok" THEN MapSet(cleared, fullKey, raw) ELSE cleared

\* a set that does not overwrite an entry already stored for the key
StorageWrite_KeepsExisting(store, key, data, ttl, outs, t) ==
    IF getFullKey(key) \in DOMAIN store THEN store
    ELSE MapSet(store, getFullKey(key),
                JSONStringify([data |-> data, timestamp |-> t, ttl |-> ttl]))

\* a set that starts the quota recovery after any failed write
StorageWrite_RecoversOnAnyError(store, key, data, ttl, outs, t) ==
    LET fullKey == getFullKey(key)
        raw == JSONStringify([data |-> data, timestamp |-> t, ttl |-> ttl])
    IN  IF outs[1] = "ok" THEN MapSet(store, fullKey, raw)
        ELSE handleQuotaExceeded(store, fullKey, raw, outs, t)

\* StorageCache.set on an available storage; outs[1] is the outcome of the
\* first setItem
StorageWrite(store, key, data, ttl, outs, t) ==
    LET fullKey == getFullKey(key)
        raw == JSONStringify([data |-> data, timestamp |-> t, ttl |-> ttl])
    IN  IF outs[1] = "ok" THEN MapSet(store, fullKey, raw)
        ELSE IF outs[1] = "quota"
             THEN handleQuotaExceeded(store, fullKey, raw, outs, t)
             ELSE store

\* does StorageCache.set store the entry: the storage is available and one
\* of the setItem attempts succeeds
StorageWrote(avail, probeOk, outs) ==
    /\ ProbeAvailable(avail, probeOk) = "true"
    /\ \/ outs[1] = "ok"
       \/ outs[1] = "quota" /\ outs[2] = "ok"
       \/ outs[1] = "quota" /\ outs[2] = "quota" /\ outs[3] = "ok"

\* StorageCache.set, availability probe included
StorageSet(store, avail, probeOk, key, data, ttl, outs, t) ==
    IF ProbeAvailable(avail, probeOk) = "true"
    THEN StorageWrite(ProbeStore(store, avail, probeOk), key, data, ttl, outs, t)
    ELSE store

\* a quota recovery whose final retry is not guarded by a try block
handleQuotaExceededThrows_Unguarded(outs) ==
    outs[2] = "quota" /\ outs[3] # "ok"

\* handleQuotaExceeded: does an exception escape the call.  Both retries run
\* in try blocks whose catch clauses return or fall through
handleQuotaExceededThrows(outs) == FALSE

\* StorageCache.set: does an exception escape the call.  The first setItem
\* runs in a try block; its catch clause ignores every error but a quota
\* error, for which it calls handleQuotaExceeded outside any try block
StorageSetThrows(avail, probeOk, outs) ==
    /\ ProbeAvailable(avail, probeOk) = "true"
    /\ outs[1] = "quota"
    /\ handleQuotaExceededThrows(outs)

\* the exception that escapes a StorageCache.set
WriteError == "QuotaExceededError"

\* a catch clause that removes the entry it could not parse
OnParseError_Removes(store, fullKey) == MapDelete(store, fullKey)

\* StorageCache.get, catch clause: the storage after a JSON.parse that threw
OnParseError(store, fullKey) == store

\* StorageCache.get: the lookup result and the storage after the probe and
\* after the removal of an expired entry
StorageGet(store, avail, probeOk, key, t) ==
    LET fullKey == getFullKey(key)
        s1 == ProbeStore(store, avail, probeOk)
        miss(s) == [hit |-> FALSE, data |-> Undefined, timestamp |-> 0,
                    store |-> s]
    IN  IF ProbeAvailable(avail, probeOk) # "true" THEN miss(store)
        ELSE IF fullKey \notin DOMAIN s1 THEN miss(s1)
        ELSE IF ~s1[fullKey].parses THEN miss(OnParseError(s1, fullKey))
        ELSE LET entry == JSONParse(s1[fullKey]) IN
             IF StorageIsExpired(entry, t) THEN miss(MapDelete(s1, fullKey))
             ELSE [hit |-> TRUE, data |-> entry.data,
                   timestamp |-> entry.timestamp, store |-> s1]

StorageInvalidate(store, avail, probeOk, key) ==
    IF ProbeAvailable(avail, probeOk) = "true"
    THEN MapDelete(ProbeStore(store, avail, probeOk), getFullKey(key))
    ELSE store

StorageClear(store, avail, probeOk) ==
    IF ProbeAvailable(avail, probeOk) = "true"
    THEN StorageClearKeys(ProbeStore(store, avail, probeOk))
    ELSE store

\* ------------------------------------------------------ call bookkeeping
CallIds == 1..MaxCalls

RequestIds == 1..MaxCalls

NoConfig == [memoryTtl |-> 0, storageTtl |-> 0]

IdleCall ==
    [ state |-> "idle", forceRefresh |-> FALSE, config |-> NoConfig,
      request |-> 0, lookupChanged |-> FALSE ]

\* a promise registered by dedupe: fetched is what the fetcher's promise
\* settled with, value what the registered promise settled with
UnusedRequest ==
    [ state |-> "unused", key |-> << >>, ok |-> FALSE, fetched |-> NoValue,
      value |-> NoOutcome, delivered |-> {} ]

\* no cachedFetch completed in the last step
NoRet ==
    [ outcome |-> "none", key |-> << >>, config |-> NoConfig,
      source |-> NoValue, data |-> NoValue, timestamp |-> 0,
      error |-> NoValue, request |-> 0, written |-> FALSE,
      forceRefresh |-> FALSE ]

\* the value cachedFetch returns; written tells whether a setItem attempt of
\* the step stored the entry, forceRefresh is the option of the call
Returned(key, config, source, data, timestamp, r, written, forceRefresh) ==
    [ outcome |-> "returned", key |-> key, config |-> config,
      source |-> source, data |-> data, timestamp |-> timestamp,
      error |-> NoValue, request |-> r, written |-> written,
      forceRefresh |-> forceRefresh ]

Rejected(key, config, error, r, forceRefresh) ==
    [ outcome |-> "rejected", key |-> key, config |-> config,
      source |-> NoValue, data |-> NoValue, timestamp |-> 0,
      error |-> error, request |-> r, written |-> FALSE,
      forceRefresh |-> forceRefresh ]

UsedCalls == { c \in CallIds : calls[c].state # "idle" }

UsedRequests == { r \in RequestIds : requests[r].state # "unused" }

\* the fetcher invocations of a key whose promise has not settled
Outstanding(key) ==
    { r \in RequestIds : requests[r].state = "inflight" /\ requests[r].key = key }

\* the requests of a key whose registered promise has not settled
Unsettled(key) ==
    { r \in RequestIds : requests[r].state \in {"inflight", "settled"}
                         /\ requests[r].key = key }

\* the callers whose await on request r has not resumed yet
Awaiting(r) ==
    { c \in CallIds : calls[c].state = "awaiting" /\ calls[c].request = r }

\* the callers of request r that have resumed
Resumed(r) ==
    { c \in CallIds : calls[c].state \in {"returned", "rejected"}
                      /\ calls[c].request = r }

\* RequestDeduplicator.isPending
isPending(key) == key \in DOMAIN pending

\* RequestDeduplicator.getPendingCount
getPendingCount == Cardinality(DOMAIN pending)

Init ==
    /\ now = 0
    /\ cache = EmptyMap
    /\ localStorage = EmptyMap
    /\ storageAvailable = "null"
    /\ pending = EmptyMap
    /\ lastFetchTimestamps = EmptyMap
    /\ requests = [r \in RequestIds |-> UnusedRequest]
    /\ calls = [c \in CallIds |-> IdleCall]
    /\ fetchCount = [k \in Keys |-> 0]
    /\ clearedInFlight = [k \in Keys |-> FALSE]
    /\ ret = NoRet

\* the clock advances
Tick ==
    /\ now < MaxTime
    /\ now' = now + 1
    /\ ret' = NoRet
    /\ UNCHANGED << cache, localStorage, storageAvailable, pending,
                    lastFetchTimestamps, requests, calls, fetchCount,
                    clearedInFlight >>

\* a dedupe that never finds the registered request
DedupeExisting_NeverJoins(p, key) == 0

\* RequestDeduplicator.dedupe(key, fetcher): the request already registered
\* for the key, or 0 when the fetcher has to be invoked
DedupeExisting(p, key) == IF key \in DOMAIN p THEN p[key] ELSE 0

\* a dedupe that forgets to register the promise
DedupeRegister_Forgets(p, key, r) == p

\* this.pending.set(key, request)
DedupeRegister(p, key, r) == MapSet(p, key, r)

\* `await deduplicator.dedupe(key, fetcher)` of cachedFetch: the caller joins
\* the registered request, or the fetcher is invoked and its promise
\* registered; the caller then waits in a call slot
Dedupe(key, forceRefresh, config, lookupChanged) ==
    /\ Cardinality(UsedCalls) < MaxCalls
    /\ LET c == Cardinality(UsedCalls) + 1
           existing == DedupeExisting(pending, key)
           slot(r) == [state |-> "awaiting", forceRefresh |-> forceRefresh,
                       config |-> config, request |-> r,
                       lookupChanged |-> lookupChanged]
       IN
       IF existing # 0
       THEN /\ calls' = [calls EXCEPT ![c] = slot(existing)]
            /\ UNCHANGED << pending, requests, fetchCount >>
       ELSE /\ LET r == Cardinality(UsedRequests) + 1 IN
               /\ requests' = [requests EXCEPT ![r] =
                                 [UnusedRequest EXCEPT !.state = "inflight",
                                                       !.key = key]]
               /\ pending' = DedupeRegister(pending, key, r)
               /\ calls' = [calls EXCEPT ![c] = slot(r)]
               /\ fetchCount' = [fetchCount EXCEPT ![key] = @ + 1]
    /\ ret' = NoRet

\* a cachedFetch that does not consult the memory tier
MemoryAnswers_Never(mem, forceRefresh) == FALSE

\* cachedFetch: does the memory tier answer the call
MemoryAnswers(mem, forceRefresh) ==
    ~forceRefresh /\ mem.hit /\ mem.data # Undefined

\* cachedFetch: does the persistent tier answer the call
StorageAnswers(sto, forceRefresh) ==
    ~forceRefresh /\ sto.hit /\ sto.data # Undefined

\* a promotion that applies the storage TTL to the memory entry
Promote_WithStorageTtl(c, key, data, config, t) ==
    MemorySet(c, key, data, config.storageTtl, t)

\* cachedFetch: a persistent-tier hit is promoted into the memory tier
Promote(c, key, data, config, t) ==
    MemorySet(c, key, data, config.memoryTtl, t)

\* cachedFetch(key, fetcher, config, {forceRefresh}) up to its return or
\* its await
CachedFetch(key, forceRefresh, config, probeOk) ==
    LET mem == MemoryGet(cache, key, now)
        sto == StorageGet(localStorage, storageAvailable, probeOk, key, now)
    IN
    /\ IF forceRefresh
       THEN /\ Dedupe(key, forceRefresh, config, FALSE)
            /\ UNCHANGED << cache, localStorage, storageAvailable >>
       ELSE IF MemoryAnswers(mem, forceRefresh)
       THEN /\ ret' = Returned(key, config, "memory", mem.data,
                               mem.timestamp, 0, FALSE, forceRefresh)
            /\ cache' = mem.cache
            /\ UNCHANGED << localStorage, storageAvailable, pending,
                            requests, calls, fetchCount >>
       ELSE IF StorageAnswers(sto, forceRefresh)
       THEN /\ ret' = Returned(key, config, "storage", sto.data,
                               sto.timestamp, 0, FALSE, forceRefresh)
            /\ cache' = Promote(mem.cache, key, sto.data, config, now)
            /\ localStorage' = sto.store
            /\ storageAvailable' = ProbeAvailable(storageAvailable, probeOk)
            /\ UNCHANGED << pending, requests, calls, fetchCount >>
       ELSE /\ Dedupe(key, forceRefresh, config,
                       mem.cache # cache \/ sto.store # localStorage)
            /\ cache' = mem.cache
            /\ localStorage' = sto.store
            /\ storageAvailable' = ProbeAvailable(storageAvailable, probeOk)
    /\ UNCHANGED << now, lastFetchTimestamps, clearedInFlight >>

\* the promise returned by the fetcher is fulfilled
FetcherResolves(r, value) ==
    /\ requests[r].state = "inflight"
    /\ requests' = [requests EXCEPT ![r].state = "settled",
                                    ![r].ok = TRUE, ![r].fetched = value]
    /\ ret' = NoRet
    /\ UNCHANGED << now, cache, localStorage, storageAvailable, pending,
                    lastFetchTimestamps, calls, fetchCount, clearedInFlight >>

\* the promise returned by the fetcher is rejected
FetcherRejects(r, error) ==
    /\ requests[r].state = "inflight"
    /\ requests' = [requests EXCEPT ![r].state = "settled",
                                    ![r].ok = FALSE, ![r].fetched = error]
    /\ ret' = NoRet
    /\ UNCHANGED << now, cache, localStorage, storageAvailable, pending,
                    lastFetchTimestamps, calls, fetchCount, clearedInFlight >>

\* a .then reaction that leaves the registry entry in place
OnFulfilledDelete_Skips(p, key) == p

\* the .then reaction: this.pending.delete(key); return result
OnFulfilledDelete(p, key) == MapDelete(p, key)

\* the registered promise is fulfilled with what the .then reaction returns
OnFulfilled(result) == << "value", result >>

\* a .catch reaction that leaves the registry entry in place
OnRejectedDelete_Skips(p, key) == p

\* the .catch reaction: this.pending.delete(key); throw error
OnRejectedDelete(p, key) == MapDelete(p, key)

\* a .catch reaction that throws a new error in place of the one it caught
OnRejected_Replaces(error) == << "error", "wrapped" >>

\* a .catch reaction that does not rethrow: the registered promise is
\* fulfilled with undefined
OnRejected_Swallows(error) == << "value", Undefined >>

\* the registered promise is rejected with what the .catch reaction throws
OnRejected(error) == << "error", error >>

\* the .then / .catch reaction of dedupe runs: the registry entry of the key
\* is deleted and the registered promise settles with what the reaction
\* returns or throws.  (On success the registered promise settles one
\* microtask after the deletion; no caller can join or resume in between, so
\* the two are one step here.)
Cleanup(r) ==
    /\ requests[r].state = "settled"
    /\ IF requests[r].ok
       THEN /\ pending' = OnFulfilledDelete(pending, requests[r].key)
            /\ requests' = [requests EXCEPT
                              ![r].state = "done",
                              ![r].value = OnFulfilled(requests[r].fetched)]
       ELSE /\ pending' = OnRejectedDelete(pending, requests[r].key)
            /\ requests' = [requests EXCEPT
                              ![r].state = "done",
                              ![r].value = OnRejected(requests[r].fetched)]
    /\ ret' = NoRet
    /\ UNCHANGED << now, cache, localStorage, storageAvailable,
                    lastFetchTimestamps, calls, fetchCount, clearedInFlight >>

\* the caller that resumes next from its await on request r: the reactions
\* of a promise run in the order in which they were attached
NextToResume(r) == CHOOSE c \in Awaiting(r) : \A d \in Awaiting(r) : c <= d

\* what the await of a caller of request r evaluates to
AwaitedValue(r) == requests[r].value

\* bookkeeping of a resumption: the outcome is added to those delivered by
\* request r; once the last awaiting caller has resumed nothing can read the
\* promise any more and its value is dropped
Deliver(r, c, outcome) ==
    IF Awaiting(r) = {c}
    THEN [requests[r] EXCEPT !.state = "released", !.ok = FALSE,
                             !.value = NoOutcome, !.fetched = NoValue,
                             !.delivered = {}]
    ELSE [requests[r] EXCEPT !.delivered = @ \cup { outcome }]

\* cachedFetch after `await deduplicator.dedupe(...)`
Resume(c, probeOk, outs) ==
    /\ calls[c].state = "awaiting"
    /\ LET r == calls[c].request
           key == requests[r].key
           cfg == calls[c].config
           data == AwaitedValue(r)[2]
       IN
       /\ requests[r].state = "done"
       /\ c = NextToResume(r)
       /\ IF AwaitedValue(r)[1] = "value"
             /\ ~StorageSetThrows(storageAvailable, probeOk, outs)
          THEN /\ cache' = MemorySet(cache, key, data, cfg.memoryTtl, now)
               /\ localStorage' = StorageSet(localStorage, storageAvailable,
                                             probeOk, key, data,
                                             cfg.storageTtl, outs, now)
               /\ storageAvailable' = ProbeAvailable(storageAvailable, probeOk)
               /\ lastFetchTimestamps' = MapSet(lastFetchTimestamps, key, now)
               /\ calls' = [calls EXCEPT ![c].state = "returned",
                                         ![c].forceRefresh = FALSE,
                                         ![c].lookupChanged = FALSE]
               /\ requests' = [requests EXCEPT ![r] =
                                  Deliver(r, c, AwaitedValue(r))]
               /\ ret' = Returned(key, cfg, "network", data, now, r,
                                  StorageWrote(storageAvailable, probeOk, outs),
                                  calls[c].forceRefresh)
          ELSE IF AwaitedValue(r)[1] = "value"
          THEN \* storageCache.set throws: cachedFetch rejects after the
               \* memory write and before the timestamp is recorded
               /\ cache' = MemorySet(cache, key, data, cfg.memoryTtl, now)
               /\ localStorage' = StorageSet(localStorage, storageAvailable,
                                             probeOk, key, data,
                                             cfg.storageTtl, outs, now)
               /\ storageAvailable' = ProbeAvailable(storageAvailable, probeOk)
               /\ calls' = [calls EXCEPT ![c].state = "rejected",
                                         ![c].forceRefresh = FALSE,
                                         ![c].lookupChanged = FALSE]
               /\ requests' = [requests EXCEPT ![r] =
                                  Deliver(r, c, AwaitedValue(r))]
               /\ ret' = Rejected(key, cfg, WriteError, r,
                                  calls[c].forceRefresh)
               /\ UNCHANGED lastFetchTimestamps
          ELSE /\ calls' = [calls EXCEPT ![c].state = "rejected",
                                         ![c].forceRefresh = FALSE,
                                         ![c].lookupChanged = FALSE]
               /\ requests' = [requests EXCEPT ![r] =
                                  Deliver(r, c, AwaitedValue(r))]
               /\ ret' = Rejected(key, cfg, data, r, calls[c].forceRefresh)
               /\ UNCHANGED << cache, localStorage, storageAvailable,
                               lastFetchTimestamps >>
    /\ UNCHANGED << now, pending, fetchCount, clearedInFlight >>

\* a clear that leaves the registry as it is
DeduplicatorClear_Keeps(p) == p

\* RequestDeduplicator.clear
DeduplicatorClear(p) == EmptyMap

\* clearAllCaches()
ClearAllCaches(probeOk) ==
    /\ cache' = MemoryClear(cache)
    /\ localStorage' = StorageClear(localStorage, storageAvailable, probeOk)
    /\ storageAvailable' = ProbeAvailable(storageAvailable, probeOk)
    /\ pending' = DeduplicatorClear(pending)
    /\ lastFetchTimestamps' = EmptyMap
    /\ clearedInFlight' = [k \in Keys |->
                             clearedInFlight[k] \/ Unsettled(k) # {}]
    /\ ret' = NoRet
    /\ UNCHANGED << now, requests, calls, fetchCount >>

\* invalidateCache(key)
InvalidateCache(key, probeOk) ==
    /\ cache' = MemoryInvalidate(cache, key)
    /\ localStorage' = StorageInvalidate(localStorage, storageAvailable,
                                         probeOk, key)
    /\ storageAvailable' = ProbeAvailable(storageAvailable, probeOk)
    /\ lastFetchTimestamps' = MapDelete(lastFetchTimestamps, key)
    /\ ret' = NoRet
    /\ UNCHANGED << now, pending, requests, calls, fetchCount,
                    clearedInFlight >>

Next ==
    \/ Tick
    \/ \E key \in Keys, forceRefresh \in BOOLEAN, config \in Configs,
          probeOk \in ProbeOutcomes(storageAvailable) :
          CachedFetch(key, forceRefresh, config, probeOk)
    \/ \E r \in RequestIds, value \in FetchResults : FetcherResolves(r, value)
    \/ \E r \in RequestIds, error \in Errors : FetcherRejects(r, error)
    \/ \E r \in RequestIds : Cleanup(r)
    \/ \E c \in CallIds, probeOk \in ProbeOutcomes(storageAvailable),
          outs \in WriteAttempts :
          Resume(c, probeOk, outs)
    \/ \E probeOk \in ProbeOutcomes(storageAvailable) : ClearAllCaches(probeOk)
    \/ \E key \in Keys, probeOk \in ProbeOutcomes(storageAvailable) :
          InvalidateCache(key, probeOk)

Spec == Init /\ [][Next]_vars

TypeOK ==
    /\ now \in 0..MaxTime
    /\ DOMAIN cache \subseteq Keys \cup { <<"c", "1", "LF">>, <<"u", "1">> }
    /\ DOMAIN pending \subseteq Keys
    /\ storageAvailable \in {"null", "true", "false"}

\* ================================================================ claims
\* the step starts call c on the deduplicator
NewCall(c) == calls[c].state = "idle" /\ calls'[c].state = "awaiting"

\* the key of the call that the step starts
NewCallKey(c) == requests'[calls'[c].request].key

\* the step resumes call c from its await
Resumes(c) == calls[c].state = "awaiting" /\ calls'[c].state # "awaiting"

\* the memory tier reports an entry for the key
MemoryHolds(k) == MemoryGet(cache, k, now).hit

\* the persistent tier holds an unexpired entry for the key
StorageHolds(k) ==
    /\ storageAvailable # "false"
    /\ getFullKey(k) \in DOMAIN localStorage
    /\ localStorage[getFullKey(k)].parses
    /\ ~StorageIsExpired(JSONParse(localStorage[getFullKey(k)]), now)

\* some earlier caller of key k still awaits a fetch that has not settled
EarlierCallInFlight(k) ==
    \E d \in CallIds :
        /\ calls[d].state = "awaiting"
        /\ requests[calls[d].request].key = k
        /\ requests[calls[d].request].state = "inflight"

\* the call started by the step joins the fetch of an earlier caller and the
\* fetcher is not invoked
JoinsEarlierCall(c) ==
    /\ fetchCount' = fetchCount
    /\ \E d \in CallIds : /\ calls[d].state = "awaiting"
                          /\ calls'[c].request = calls[d].request

\* a caller that resumes from a fulfilled request returns the fetched value
\* with source 'network', the same value as every caller resumed before it
ResumesWithSharedValue(c) ==
    LET r == calls[c].request IN
    Resumes(c) /\ requests[r].ok =>
        /\ calls'[c].state = "returned"
        /\ ret'.outcome = "returned"
        /\ ret'.source = "network"
        /\ ret'.data = requests[r].fetched
        /\ \A o \in requests[r].delivered : o = << "value", ret'.data >>

C2_Original == \A k \in Keys : Cardinality(Outstanding(k)) <= 1

\* C2 amended: at most one fetcher invocation per key is outstanding in every
\* state reached without a clear() / clearAllCaches() call made while a fetch
\* of the key was unsettled.
C2_OneOutstanding ==
    \A k \in Keys : ~clearedInFlight[k] => Cardinality(Outstanding(k)) <= 1

\* a second fetch of the key is outstanding after the first one settled, with
\* two callers waiting for it
C2_Witness ==
    \E k \in Keys, r \in RequestIds :
        /\ ~clearedInFlight[k]
        /\ Outstanding(k) = {r}
        /\ fetchCount[k] = 2
        /\ Cardinality(Awaiting(r)) >= 1

\* C3: when the shared fetch of a key rejects, every caller that awaited it
\* is rejected with the error the fetcher rejected with, unchanged, and none
\* of them receives a value.
C3_SharedError ==
    [][ \A c \in CallIds :
          LET r == calls[c].request IN
          Resumes(c) /\ ~requests[r].ok =>
              /\ calls'[c].state = "rejected"
              /\ ret'.outcome = "rejected"
              /\ ret'.data = NoValue
              /\ ret'.error = requests[r].fetched
              /\ \A o \in requests[r].delivered :
                    o = << "error", requests[r].fetched >> ]_vars

\* the initiator of a fetch and a caller that joined it have both been
\* rejected
C3_Witness ==
    \E r \in RequestIds :
        /\ Cardinality({ c \in Resumed(r) : calls[c].state = "rejected" }) >= 2
        /\ ret.outcome = "rejected" /\ ret.request = r

\* the entry a tier reports for the key: an expired record counts as absent
NoEntry == [data |-> NoValue, timestamp |-> 0, ttl |-> 0]

MemoryEntry(c, k, t) ==
    IF k \in DOMAIN c /\ ~MemoryIsExpired(c[k], t) THEN c[k] ELSE NoEntry

StorageEntry(store, k, t) ==
    IF /\ getFullKey(k) \in DOMAIN store
       /\ store[getFullKey(k)].parses
       /\ ~StorageIsExpired(JSONParse(store[getFullKey(k)]), t)
    THEN JSONParse(store[getFullKey(k)])
    ELSE NoEntry

\* the step rejects call c with the error of its fetch
ResumesRejected(c) ==
    Resumes(c) /\ ~requests[calls[c].request].ok

\* C4 as stated: when the fetcher rejects, cachedFetch rejects and the memory
\* entry, the persistent entry and the last-fetch timestamp of the key are as
\* they were before the call: neither the lookups of the call nor its
\* rejection changed them.
C4_Original ==
    [][ \A c \in CallIds :
          ResumesRejected(c) =>
              /\ calls'[c].state = "rejected"
              /\ ~calls[c].lookupChanged
              /\ UNCHANGED << cache, localStorage, lastFetchTimestamps >> ]_vars

\* C4 amended: when the fetcher rejects, cachedFetch rejects; the rejection
\* changes neither tier nor the last-fetch map, and the lookups of the call
\* leave the last-fetch map and every unexpired entry as they were (an
\* unforced call evicts an expired entry of the key from the tier it reads).
\* A valid entry cached earlier is therefore still in place afterwards.
C4_FailureKeepsCache ==
    [][ \A c \in CallIds :
          /\ ( ResumesRejected(c) =>
                 /\ calls'[c].state = "rejected"
                 /\ ret'.outcome = "rejected"
                 /\ UNCHANGED << cache, localStorage, lastFetchTimestamps >> )
          /\ ( NewCall(c) =>
                 /\ lastFetchTimestamps' = lastFetchTimestamps
                 /\ MemoryEntry(cache', NewCallKey(c), now)
                      = MemoryEntry(cache, NewCallKey(c), now)
                 /\ StorageEntry(localStorage', NewCallKey(c), now)
                      = StorageEntry(localStorage, NewCallKey(c), now)
                 /\ (calls'[c].forceRefresh =>
                        UNCHANGED << cache, localStorage >>) ) ]_vars

\* a forced call was rejected while both tiers hold an unexpired entry for
\* its key
C4_Witness ==
    /\ ret.outcome = "rejected"
    /\ ret.forceRefresh
    /\ \E c \in CallIds : /\ calls[c].state = "rejected"
                          /\ calls[c].request = ret.request
    /\ MemoryEntry(cache, ret.key, now) # NoEntry
    /\ StorageEntry(localStorage, ret.key, now) # NoEntry

\* some caller of key k, forced if `forced`, awaits a fetch in flight
CallInFlight(k, forced) ==
    \E d \in CallIds :
        /\ calls[d].state = "awaiting"
        /\ calls[d].forceRefresh = forced
        /\ requests[calls[d].request].key = k
        /\ requests[calls[d].request].state = "inflight"

\* a caller that resumes receives the outcome of the request it joined
ResumesWithOutcome(c) ==
    LET r == calls[c].request IN
    Resumes(c) =>
        IF requests[r].ok
        THEN ret'.outcome = "returned" /\ ret'.data = requests[r].fetched
        ELSE ret'.outcome = "rejected" /\ ret'.error = requests[r].fetched

Settles(r) == requests[r].state = "settled" /\ requests'[r].state = "done"

\* C6: after the fetch registered for a key has settled, with success or
\* with failure, isPending(key) is false, and the next dedupe call for the
\* key invokes the fetcher again and returns a new pending promise, never
\* the settled one: the registry never holds a settled promise, and no call
\* joins one.
C6_FreshAfterSettle ==
    [][ /\ \A r \in RequestIds :
             Settles(r) => ~isPending(requests[r].key)'
        /\ \A k \in DOMAIN pending' :
             requests'[pending'[k]].state \in {"inflight", "settled"}
        /\ \A c \in CallIds :
             NewCall(c) =>
                 LET k == NewCallKey(c)
                     r == calls'[c].request
                 IN  /\ requests'[r].state \in {"inflight", "settled"}
                     /\ ( Unsettled(k) = {} =>
                            /\ fetchCount'[k] = fetchCount[k] + 1
                            /\ requests[r].state = "unused"
                            /\ requests'[r].state = "inflight"
                            /\ k \in DOMAIN pending' /\ pending'[k] = r ) ]_vars

\* a second fetch of a key is in flight for a caller after the first fetch
\* of the key settled and its caller resumed, with no clear in between
C6_Witness ==
    \E r, q \in RequestIds :
        /\ r # q
        /\ requests[r].key = requests[q].key
        /\ requests[r].state = "released"
        /\ requests[q].state = "inflight"
        /\ Awaiting(q) # {}
        /\ pending[requests[q].key] = q
        /\ ~clearedInFlight[requests[q].key]
        /\ fetchCount[requests[q].key] = 2

\* C7: in every state in which some caller has resumed with the value or the
\* error of a fetch, the registry no longer holds the entry registered for
\* that fetch.
C7_RemovedBeforeObserved ==
    \A c \in CallIds :
        calls[c].state \in {"returned", "rejected"} =>
            LET r == calls[c].request IN
            ~(isPending(requests[r].key) /\ pending[requests[r].key] = r)

\* one caller of a fetch has resumed while another caller of the same fetch
\* has not yet
C7_Witness ==
    \E r \in RequestIds :
        /\ requests[r].state = "done"
        /\ Resumed(r) # {}
        /\ Awaiting(r) # {}

\* the step is an unforced cachedFetch for key k that goes to the network
UnforcedGoesToNetwork(k) ==
    \E c \in CallIds :
        NewCall(c) /\ NewCallKey(c) = k /\ ~calls'[c].forceRefresh

\* the step is a cachedFetch for key k that returns from a tier.  (Only an
\* unforced call looks into the tiers.)
ReturnsFromTier(k) ==
    ret'.outcome = "returned" /\ ret'.request = 0 /\ ret'.key = k

\* C8 as stated: when forceRefresh is false and the memory tier holds an
\* unexpired entry for the key, cachedFetch returns that entry's data with
\* source 'memory' and does not invoke the fetcher.
C8_Original ==
    [][ \A k \in Keys :
          MemoryHolds(k) =>
              /\ ~UnforcedGoesToNetwork(k)
              /\ ( ReturnsFromTier(k) =>
                     /\ ret'.source = "memory"
                     /\ ret'.data = cache[k].data
                     /\ fetchCount' = fetchCount ) ]_vars

\* C8 amended: the same for an unexpired entry whose data is not undefined.
\* (cachedFetch treats a hit with data === undefined as a miss.)
C8_MemoryHit ==
    [][ \A k \in Keys :
          MemoryHolds(k) /\ cache[k].data # Undefined =>
              /\ ~UnforcedGoesToNetwork(k)
              /\ ( ReturnsFromTier(k) =>
                     /\ ret'.source = "memory"
                     /\ ret'.data = cache[k].data
                     /\ ret'.timestamp = cache[k].timestamp
                     /\ fetchCount' = fetchCount ) ]_vars

\* after the only network fetch of a key, an unforced call has returned the
\* fetched data from the memory tier
C8_Witness ==
    /\ ret.outcome = "returned"
    /\ ret.source = "memory"
    /\ ret.data \in FetchResults \ { Undefined }
    /\ fetchCount[ret.key] = 1
    /\ \E c \in CallIds : /\ calls[c].state = "returned"
                          /\ requests[calls[c].request].key = ret.key

\* the entry the persistent tier holds for key k
StoredEntry(k) == JSONParse(localStorage[getFullKey(k)])

\* C9 as stated: when the memory tier misses and the persistent tier holds
\* an unexpired entry for the key, an unforced cachedFetch returns that data
\* with source 'storage' without invoking the fetcher and writes the value
\* into the memory tier with the caller's memoryTtl.
C9_Original ==
    [][ \A k \in Keys :
          ~MemoryHolds(k) /\ StorageHolds(k) =>
              /\ ~UnforcedGoesToNetwork(k)
              /\ ( ReturnsFromTier(k) =>
                     /\ ret'.source = "storage"
                     /\ ret'.data = StoredEntry(k).data
                     /\ fetchCount' = fetchCount
                     /\ cache'[k] = [data |-> StoredEntry(k).data,
                                     timestamp |-> now,
                                     ttl |-> ret'.config.memoryTtl] ) ]_vars

\* C9 amended: the same for a stored entry whose data is not undefined.  (A
\* fetched undefined is stored without its data field, and cachedFetch
\* treats a hit with data === undefined as a miss.)  The promoted entry is
\* unexpired for memoryTtl from now on, so the memory tier answers a
\* following unforced call.
C9_StorageHit ==
    [][ \A k \in Keys :
          /\ ~MemoryHolds(k) /\ StorageHolds(k)
          /\ StoredEntry(k).data # Undefined
          =>  /\ ~UnforcedGoesToNetwork(k)
              /\ ( ReturnsFromTier(k) =>
                     /\ ret'.source = "storage"
                     /\ ret'.data = StoredEntry(k).data
                     /\ ret'.timestamp = StoredEntry(k).timestamp
                     /\ fetchCount' = fetchCount
                     /\ cache'[k] = [data |-> StoredEntry(k).data,
                                     timestamp |-> now,
                                     ttl |-> ret'.config.memoryTtl]
                     /\ MemoryAnswers(MemoryGet(cache', k, now), FALSE) )
    ]_vars

\* an unforced call has returned from the persistent tier an entry written
\* earlier than now, and the memory tier holds the promoted entry
C9_Witness ==
    /\ ret.outcome = "returned"
    /\ ret.source = "storage"
    /\ ret.timestamp < now
    /\ ret.key \in DOMAIN cache
    /\ cache[ret.key] = [data |-> ret.data, timestamp |-> now,
                         ttl |-> ret.config.memoryTtl]

\* the step resumes call c with the value of a fulfilled fetch
ResumesFulfilled(c) ==
    Resumes(c) /\ requests[calls[c].request].ok

\* the step wrote value v for key k into the memory tier with the TTL of
\* the call, set the last-fetch timestamp and returned v from the network
WritesMemoryAndReturns(k, v, cfg) ==
    /\ ret'.outcome = "returned"
    /\ ret'.source = "network"
    /\ ret'.data = v
    /\ ret'.timestamp = now
    /\ k \in DOMAIN cache'
    /\ cache'[k] = [data |-> v, timestamp |-> now, ttl |-> cfg.memoryTtl]
    /\ k \in DOMAIN lastFetchTimestamps'
    /\ lastFetchTimestamps'[k] = ret'.timestamp

\* the persistent tier holds value v for key k, written now with the
\* storage TTL of the call
StorageHasWritten(store, k, v, cfg) ==
    /\ getFullKey(k) \in DOMAIN store
    /\ store[getFullKey(k)].parses
    /\ JSONParse(store[getFullKey(k)])
         = [data |-> v, timestamp |-> now, ttl |-> cfg.storageTtl]

\* C10 as stated: when the deduplicated fetch succeeds with value v,
\* cachedFetch writes v into the memory tier with memoryTtl and into the
\* persistent tier with storageTtl, sets the last-fetch timestamp of the key
\* to the returned timestamp, and returns v with source 'network'.
C10_Original ==
    [][ \A c \in CallIds :
          ResumesFulfilled(c) =>
              LET r == calls[c].request IN
              /\ WritesMemoryAndReturns(requests[r].key, requests[r].fetched,
                                        calls[c].config)
              /\ StorageHasWritten(localStorage', requests[r].key,
                                   requests[r].fetched, calls[c].config)
    ]_vars

\* C10 amended: the memory write, the last-fetch timestamp and the return
\* are as stated; the persistent tier holds v with storageTtl when the tier
\* is available, a setItem attempt of the write succeeded and v survives
\* JSON serialisation (undefined and NaN do not); a failed write is
\* swallowed and leaves no entry for the key written by this call.
C10_NetworkSuccess ==
    [][ \A c \in CallIds :
          ResumesFulfilled(c) =>
              LET r == calls[c].request
                  k == requests[r].key
                  v == requests[r].fetched
              IN
              /\ WritesMemoryAndReturns(k, v, calls[c].config)
              /\ ( ret'.written /\ v \notin { Undefined, "NaN" } =>
                     StorageHasWritten(localStorage', k, v, calls[c].config) )
              /\ ( ~ret'.written =>
                     \/ getFullKey(k) \notin DOMAIN localStorage'
                     \/ localStorage'[getFullKey(k)]
                          = localStorage[getFullKey(k)] )
    ]_vars

\* a successful fetch has been written to both tiers and returned from the
\* network
C10_Witness ==
    /\ ret.outcome = "returned"
    /\ ret.source = "network"
    /\ ret.written
    /\ ret.data = "v1"
    /\ cache[ret.key].data = ret.data
    /\ StorageHasWritten(localStorage, ret.key, ret.data, ret.config)
    /\ lastFetchTimestamps[ret.key] = ret.timestamp

\* the step starts a forced call for key k while both tiers hold an
\* unexpired entry for k and no fetch of k is unsettled
ForcedCallOverValidEntries(c) ==
    /\ NewCall(c)
    /\ calls'[c].forceRefresh
    /\ MemoryHolds(NewCallKey(c)) /\ StorageHolds(NewCallKey(c))
    /\ Unsettled(NewCallKey(c)) = {}

\* the step resumes forced call c with a fetched value while both tiers
\* hold an unexpired entry for its key
ForcedResumeOverValidEntries(c) ==
    /\ ResumesFulfilled(c)
    /\ calls[c].forceRefresh
    /\ MemoryHolds(requests[calls[c].request].key)
    /\ StorageHolds(requests[calls[c].request].key)

\* C11 as stated: with an unexpired entry in both tiers and no fetch in
\* flight, a forced cachedFetch invokes the fetcher and, on success, replaces
\* the entry in both tiers with the new result and returns source 'network'.
C11_Original ==
    [][ \A c \in CallIds :
          /\ ( ForcedCallOverValidEntries(c) =>
                 fetchCount'[NewCallKey(c)] = fetchCount[NewCallKey(c)] + 1 )
          /\ ( ForcedResumeOverValidEntries(c) =>
                 LET r == calls[c].request IN
                 /\ WritesMemoryAndReturns(requests[r].key, requests[r].fetched,
                                           calls[c].config)
                 /\ StorageHasWritten(localStorage', requests[r].key,
                                      requests[r].fetched, calls[c].config) )
    ]_vars

\* C11 amended: the forced call invokes the fetcher, no forced call returns
\* from a tier, and on success the memory entry is replaced and source
\* 'network' returned; the persistent entry is replaced when a setItem
\* attempt of the write succeeds and the value survives JSON serialisation
\* (a failed write is swallowed and leaves the old entry or, after the quota
\* recovery, none).
C11_ForcedRefresh ==
    [][ /\ ( ret'.outcome = "returned" /\ ret'.forceRefresh =>
               ret'.source = "network" )
        /\ \A c \in CallIds :
          /\ ( ForcedCallOverValidEntries(c) =>
                 /\ fetchCount'[NewCallKey(c)] = fetchCount[NewCallKey(c)] + 1
                 /\ UNCHANGED << cache, localStorage >> )
          /\ ( ForcedResumeOverValidEntries(c) =>
                 LET r == calls[c].request
                     k == requests[r].key
                     v == requests[r].fetched
                 IN
                 /\ WritesMemoryAndReturns(k, v, calls[c].config)
                 /\ ( ret'.written /\ v \notin { Undefined, "NaN" } =>
                        StorageHasWritten(localStorage', k, v, calls[c].config) )
                 /\ ( ~ret'.written =>
                        \/ getFullKey(k) \notin DOMAIN localStorage'
                        \/ localStorage'[getFullKey(k)]
                             = localStorage[getFullKey(k)] ) )
    ]_vars

\* a forced call has replaced, in both tiers, the entry that the first fetch
\* of the key had written
C11_Witness ==
    /\ ret.outcome = "returned"
    /\ ret.forceRefresh
    /\ ret.source = "network"
    /\ ret.written
    /\ ret.data = "v1"
    /\ fetchCount[ret.key] = 2
    /\ ~clearedInFlight[ret.key]
    /\ cache[ret.key].data = "v1"
    /\ StorageHasWritten(localStorage, ret.key, "v1", ret.config)

\* ============================================ sequential use, several keys
\* The cache module used by one caller at a time, over several keys, with
\* patterns, and over a localStorage that other consumers and earlier
\* sessions have written to.

\* the wildcard character of a pattern
Star == "*"

\* a line terminator character (U+000A)
LineFeed == "LF"

SeqKeys == Keys \cup { <<"c", "1", LineFeed>>, <<"u", "1">> }

\* patterns passed to invalidateCachePattern: a trailing wildcard, no
\* wildcard (a key, and a proper prefix of a key), the lone wildcard and a
\* leading wildcard
Patterns ==
    { <<"c", Star>>, <<"c", "1">>, <<"u">>, <<Star>>, <<Star, "1">> }

\* storage keys of other consumers: another prefix, no prefix, and the name
\* the availability probe uses
OtherPrefixKey == << "other_", "c", "1" >>

UnprefixedKey == << "c", "1" >>

ForeignKeys == { OtherPrefixKey, UnprefixedKey, TestKey }

\* a value stored by another consumer: text that is not a cache entry
ForeignRaw ==
    [ parses |-> FALSE, hasData |-> FALSE, data |-> "foreign",
      timestamp |-> 0, ttl |-> 0 ]

ForeignStore == [k \in ForeignKeys |-> ForeignRaw]

\* a text under a prefixed key that JSON.parse rejects
CorruptRaw ==
    [ parses |-> FALSE, hasData |-> FALSE, data |-> "not valid json",
      timestamp |-> 0, ttl |-> 0 ]

\* what localStorage holds when the module is loaded: the entries of other
\* consumers, and possibly an entry this tier wrote in an earlier session or
\* a damaged text under one of the tier's keys
InitialStores ==
    { ForeignStore,
      MapSet(ForeignStore, getFullKey(<<"c", "1">>),
             JSONStringify([data |-> "v1", timestamp |-> 0, ttl |-> 0])),
      MapSet(ForeignStore, getFullKey(<<"u", "1">>), CorruptRaw) }

\* String.prototype.includes('*')
includesStar(pattern) == \E i \in 1..Len(pattern) : pattern[i] = Star

\* pattern.replace(/\*+$/, ''): the pattern without its trailing wildcards
RECURSIVE stripTrailingStars(_)
stripTrailingStars(pattern) ==
    IF pattern # << >> /\ pattern[Len(pattern)] = Star
    THEN stripTrailingStars(SubSeq(pattern, 1, Len(pattern) - 1))
    ELSE pattern

\* an invalidatePattern that matches by prefix whether or not the pattern
\* has a wildcard
MemoryInvalidatePattern_AlwaysPrefix(c, pattern) ==
    [k \in { x \in DOMAIN c :
                ~startsWith(x, stripTrailingStars(pattern)) } |-> c[k]]

\* MemoryCache.invalidatePattern
MemoryInvalidatePattern(c, pattern) ==
    IF ~includesStar(pattern) THEN MapDelete(c, pattern)
    ELSE [k \in { x \in DOMAIN c :
                    ~startsWith(x, stripTrailingStars(pattern)) } |-> c[k]]

\* StorageCache.patternToRegex: every other character is escaped and stands
\* for itself, every * becomes .* ; the regular expression is anchored at
\* both ends
patternToRegex(pattern) ==
    [i \in 1..Len(pattern) |->
        IF pattern[i] = Star THEN ".*" ELSE << pattern[i] >>]

\* RegExp.prototype.test for such an expression: . matches any character
\* except a line terminator
RECURSIVE regexTest(_, _)
regexTest(regex, str) ==
    IF regex = << >> THEN str = << >>
    ELSE IF Head(regex) = ".*"
    THEN \E n \in 0..Len(str) :
            /\ \A i \in 1..n : str[i] # LineFeed
            /\ regexTest(Tail(regex), SubSeq(str, n + 1, Len(str)))
    ELSE /\ str # << >>
         /\ << Head(str) >> = Head(regex)
         /\ regexTest(Tail(regex), Tail(str))

\* StorageCache.invalidatePattern
StorageInvalidatePattern(store, avail, probeOk, pattern) ==
    IF ProbeAvailable(avail, probeOk) # "true" THEN store
    ELSE LET s1 == ProbeStore(store, avail, probeOk)
             regex == patternToRegex(getFullKey(pattern))
         IN  [k \in { x \in DOMAIN s1 :
                        ~(x \in getAllCacheKeys(s1) /\ regexTest(regex, x)) }
                |-> s1[k]]

\* invalidateCachePattern: the last-fetch timestamps that are purged
TimestampsInvalidatePattern(m, pattern) ==
    IF pattern = << Star >> THEN EmptyMap
    ELSE [k \in { x \in DOMAIN m :
                    ~startsWith(x, stripTrailingStars(pattern)) } |-> m[k]]

\* invalidateCachePattern(pattern)
InvalidateCachePattern(pattern, probeOk) ==
    /\ cache' = MemoryInvalidatePattern(cache, pattern)
    /\ localStorage' = StorageInvalidatePattern(localStorage, storageAvailable,
                                                probeOk, pattern)
    /\ storageAvailable' = ProbeAvailable(storageAvailable, probeOk)
    /\ lastFetchTimestamps' =
           TimestampsInvalidatePattern(lastFetchTimestamps, pattern)
    /\ ret' = NoRet
    /\ UNCHANGED << now, pending, requests, calls, fetchCount,
                    clearedInFlight >>

\* what a fetcher invocation of the sequential caller ends with
FetchOutcomes == { << "value", "v1" >>, << "error", "e1" >> }

\* the setItem outcomes that can be told apart after a fetch with the given
\* outcome: no write is attempted after a rejected fetch
WriteAttemptsAfter(outcome) ==
    IF outcome[1] = "value" THEN WriteAttempts
    ELSE { [i \in 1..3 |-> "ok"] }

\* a cachedFetch call that runs to completion before anything else happens:
\* the lookups of an unforced call, then, when no tier answers, the fetch
\* with its outcome and the writes that follow a fulfilled fetch.  A call
\* that reaches the fetcher takes a call slot.
SeqCachedFetch(key, forceRefresh, config, probeOk, outcome, outs) ==
    LET mem == MemoryGet(cache, key, now)
        sto == StorageGet(localStorage, storageAvailable, probeOk, key, now)
        cache1 == IF forceRefresh THEN cache ELSE mem.cache
        store1 == IF forceRefresh THEN localStorage ELSE sto.store
        avail1 == IF forceRefresh THEN storageAvailable
                  ELSE ProbeAvailable(storageAvailable, probeOk)
        c == Cardinality(UsedCalls) + 1
    IN
    /\ ~isPending(key)
    /\ IF MemoryAnswers(mem, forceRefresh)
       THEN /\ cache' = mem.cache
            /\ UNCHANGED << localStorage, storageAvailable,
                            lastFetchTimestamps, calls, fetchCount >>
       ELSE IF StorageAnswers(sto, forceRefresh)
       THEN /\ cache' = Promote(mem.cache, key, sto.data, config, now)
            /\ localStorage' = sto.store
            /\ storageAvailable' = avail1
            /\ UNCHANGED << lastFetchTimestamps, calls, fetchCount >>
       ELSE /\ Cardinality(UsedCalls) < MaxCalls
            /\ fetchCount' = [k \in Keys |->
                                IF k = key THEN fetchCount[k] + 1
                                ELSE fetchCount[k]]
            /\ IF outcome[1] = "value"
               THEN /\ cache' = MemorySet(cache1, key, outcome[2],
                                          config.memoryTtl, now)
                    /\ localStorage' = StorageSet(store1, avail1, probeOk,
                                                  key, outcome[2],
                                                  config.storageTtl, outs,
                                                  now)
                    /\ storageAvailable' = ProbeAvailable(avail1, probeOk)
                    /\ IF StorageSetThrows(avail1, probeOk, outs)
                       THEN /\ calls' = [calls EXCEPT
                                           ![c].state = "rejected"]
                            /\ UNCHANGED lastFetchTimestamps
                       ELSE /\ calls' = [calls EXCEPT
                                           ![c].state = "returned"]
                            /\ lastFetchTimestamps' =
                                   MapSet(lastFetchTimestamps, key, now)
               ELSE /\ cache' = cache1
                    /\ localStorage' = store1
                    /\ storageAvailable' = avail1
                    /\ calls' = [calls EXCEPT ![c].state = "rejected"]
                    /\ UNCHANGED lastFetchTimestamps
    /\ ret' = NoRet
    /\ UNCHANGED << now, pending, requests, clearedInFlight >>

\* getCacheStatus(key): memoryCache.has and storageCache.has are lookups
\* that evict an expired entry; the registry and the timestamps are only read
GetCacheStatus(key, probeOk) ==
    /\ cache' = MemoryGet(cache, key, now).cache
    /\ localStorage' = StorageGet(localStorage, storageAvailable, probeOk,
                                  key, now).store
    /\ storageAvailable' = ProbeAvailable(storageAvailable, probeOk)
    /\ ret' = NoRet
    /\ UNCHANGED << now, pending, lastFetchTimestamps, requests, calls,
                    fetchCount, clearedInFlight >>

\* StorageCache.getTimestamp(key): the availability check, then a read
StorageGetTimestamp(key, probeOk) ==
    /\ localStorage' = ProbeStore(localStorage, storageAvailable, probeOk)
    /\ storageAvailable' = ProbeAvailable(storageAvailable, probeOk)
    /\ ret' = NoRet
    /\ UNCHANGED << now, cache, pending, lastFetchTimestamps, requests,
                    calls, fetchCount, clearedInFlight >>

\* getLastFetchTimestamp(key): lastFetchTimestamps.get(key)
GetLastFetchTimestamp(key) ==
    /\ ret' = NoRet
    /\ UNCHANGED << now, cache, localStorage, storageAvailable, pending,
                    lastFetchTimestamps, requests, calls, fetchCount,
                    clearedInFlight >>

\* the registry when the sequential caller starts: empty, or holding a fetch
\* that another caller has in flight
SeqInit ==
    /\ now = 0
    /\ cache = EmptyMap
    /\ localStorage \in InitialStores
    /\ storageAvailable = "null"
    /\ lastFetchTimestamps = EmptyMap
    /\ clearedInFlight = [k \in Keys |-> FALSE]
    /\ ret = NoRet
    /\ \/ /\ pending = EmptyMap
          /\ fetchCount = [k \in Keys |-> 0]
          /\ requests = [r \in RequestIds |-> UnusedRequest]
          /\ calls = [c \in CallIds |-> IdleCall]
       \/ /\ pending = [k \in Keys |-> 1]
          /\ fetchCount = [k \in Keys |-> 1]
          /\ requests = [r \in RequestIds |->
                           IF r = 1
                           THEN [UnusedRequest EXCEPT !.state = "inflight",
                                                      !.key = <<"c", "1">>]
                           ELSE UnusedRequest]
          /\ calls = [c \in CallIds |->
                        IF c = 1
                        THEN [IdleCall EXCEPT !.state = "awaiting",
                                              !.forceRefresh = TRUE,
                                              !.config = [memoryTtl |-> 0,
                                                          storageTtl |-> 1],
                                              !.request = 1]
                        ELSE IdleCall]

SeqNext ==
    \/ Tick
    \/ \E key \in SeqKeys, forceRefresh \in BOOLEAN, config \in Configs,
          probeOk \in ProbeOutcomes(storageAvailable),
          outcome \in FetchOutcomes :
          \E outs \in WriteAttemptsAfter(outcome) :
          SeqCachedFetch(key, forceRefresh, config, probeOk, outcome, outs)
    \/ \E key \in SeqKeys, probeOk \in ProbeOutcomes(storageAvailable) :
          InvalidateCache(key, probeOk)
    \/ \E pattern \in Patterns, probeOk \in ProbeOutcomes(storageAvailable) :
          InvalidateCachePattern(pattern, probeOk)
    \/ \E probeOk \in ProbeOutcomes(storageAvailable) : ClearAllCaches(probeOk)
    \/ \E key \in SeqKeys, probeOk \in ProbeOutcomes(storageAvailable) :
          GetCacheStatus(key, probeOk)
    \/ \E key \in SeqKeys, probeOk \in ProbeOutcomes(storageAvailable) :
          StorageGetTimestamp(key, probeOk)
    \/ \E key \in SeqKeys : GetLastFetchTimestamp(key)

SeqSpec == SeqInit /\ [][SeqNext]_vars

\* the step is a MemoryCache.set of key k: the map holds a new entry for k
MemoryWrites(k) ==
    /\ k \in DOMAIN cache'
    /\ k \notin DOMAIN cache \/ cache'[k] # cache[k]

\* C12: an entry written by MemoryCache.set(k, v, ttl) at time t is reported
\* by get(k) at time now as a hit with data v exactly when now - t <= ttl,
\* and as a miss when now - t > ttl.
C12_ExpiryBoundary ==
    [][\A k \in SeqKeys :
          MemoryWrites(k) =>
             \E config \in Configs :
                \A t \in now..(MaxTime + 1) :
                   LET got == MemoryGet(cache', k, t) IN
                   /\ t - now <= config.memoryTtl
                         => got.hit /\ got.data = "v1"
                   /\ t - now > config.memoryTtl => ~got.hit]_vars

\* one entry has outlived its TTL and is reported as a miss, another is
\* within its TTL and is reported as a hit
C12_Witness ==
    /\ <<"c", "1">> \in DOMAIN cache
    /\ now - cache[<<"c", "1">>].timestamp > cache[<<"c", "1">>].ttl
    /\ ~MemoryGet(cache, <<"c", "1">>, now).hit
    /\ <<"u", "1">> \in DOMAIN cache
    /\ now - cache[<<"u", "1">>].timestamp <= cache[<<"u", "1">>].ttl
    /\ MemoryGet(cache, <<"u", "1">>, now).hit

\* the prefixed entries of the store that are expired at time t
ExpiredEntries(store, t) ==
    { x \in getAllCacheKeys(store) :
        store[x].parses /\ StorageIsExpired(JSONParse(store[x]), t) }

\* the prefixed entries of the store that are not expired at time t
LiveEntries(store, t) ==
    { x \in getAllCacheKeys(store) :
        store[x].parses /\ ~StorageIsExpired(JSONParse(store[x]), t) }

\* C13: when the first write of StorageCache.set fails with quota-exceeded,
\* the expired prefixed entries are deleted and the write is retried; only
\* when that retry fails with quota-exceeded too is every prefixed key
\* deleted and the write retried a last time.  The new entry is stored
\* exactly when one of the write attempts succeeds.
C13_QuotaCascade ==
    storageAvailable = "true" =>
    \A key \in SeqKeys, outs \in WriteAttempts :
       outs[1] = "quota" =>
          LET fullKey == getFullKey(key)
              raw == JSONStringify([data |-> "v2", timestamp |-> now,
                                    ttl |-> 1])
              result == StorageSet(localStorage, storageAvailable, TRUE,
                                   key, "v2", 1, outs, now)
              others == (DOMAIN localStorage) \ { fullKey }
              stored == fullKey \in DOMAIN result /\ result[fullKey] = raw
          IN
          /\ ExpiredEntries(localStorage, now) \cap others
                \cap DOMAIN result = {}
          /\ outs[2] # "quota" =>
                \A x \in LiveEntries(localStorage, now) \cap others :
                   x \in DOMAIN result /\ result[x] = localStorage[x]
          /\ outs[2] = "quota" => getAllCacheKeys(result) \subseteq { fullKey }
          /\ stored <=> \/ outs[2] = "ok"
                        \/ outs[2] = "quota" /\ outs[3] = "ok"

\* a set whose first write failed for quota: the expired entry of an earlier
\* session has been swept, the entry of another key that had not expired is
\* still there, and the retried write has stored the new entry
C13_Witness ==
    /\ storageAvailable = "true"
    /\ now = 1
    /\ \A c \in CallIds : calls[c].state = "returned"
    /\ getFullKey(<<"c", "1">>) \notin DOMAIN localStorage
    /\ getFullKey(<<"c", "1", LineFeed>>) \in DOMAIN localStorage
    /\ localStorage[getFullKey(<<"c", "1", LineFeed>>)].timestamp = 0
    /\ getFullKey(<<"u", "1">>) \in DOMAIN localStorage
    /\ localStorage[getFullKey(<<"u", "1">>)].timestamp = 1
    /\ DOMAIN cache = { <<"c", "1", LineFeed>>, <<"u", "1">> }
    /\ DOMAIN lastFetchTimestamps = DOMAIN cache

\* C14: StorageCache.set never propagates a write failure: whatever setItem
\* attempts fail, set returns normally and a cachedFetch whose fetcher
\* succeeded returns the fetched data with source 'network'.
C14_WriteFailureSwallowed ==
    [][ \A c \in CallIds :
          ResumesFulfilled(c) =>
              /\ calls'[c].state = "returned"
              /\ ret'.outcome = "returned"
              /\ ret'.source = "network"
              /\ ret'.data = requests[calls[c].request].fetched
              /\ \A outs \in WriteAttempts :
                    ~StorageSetThrows(storageAvailable', TRUE, outs)
    ]_vars

\* a cachedFetch has returned the fetched data from the network although
\* every setItem attempt of its write to the available storage failed
C14_Witness ==
    /\ ret.outcome = "returned"
    /\ ret.source = "network"
    /\ ret.data = "v1"
    /\ storageAvailable = "true"
    /\ ~ret.written
    /\ getFullKey(ret.key) \notin DOMAIN localStorage
    /\ ret.key \in DOMAIN cache

\* C15: the availability probe runs at most once and its result never
\* changes afterwards; once the probe has failed every get is a miss (a
\* cachedFetch never answers from the persistent tier: a memory entry can
\* only come from a fetch), and set, invalidate, invalidatePattern and clear
\* change nothing in storage and do not throw.
C15_ProbeOnce ==
    [][ /\ storageAvailable # "null" => storageAvailable' = storageAvailable
        /\ storageAvailable = "false" =>
              /\ localStorage' = localStorage
              /\ \A k \in SeqKeys :
                    /\ ~StorageGet(localStorage, storageAvailable, TRUE,
                                   k, now).hit
                    /\ MemoryWrites(k) => calls' # calls
              /\ \A outs \in WriteAttempts :
                    ~StorageSetThrows(storageAvailable, TRUE, outs)
    ]_vars

\* the probe has failed while storage holds an unexpired entry of an earlier
\* session for a key; the key has since been fetched from the network and
\* storage is as it was
C15_Witness ==
    /\ storageAvailable = "false"
    /\ localStorage \in InitialStores
    /\ now = 0
    /\ getFullKey(<<"c", "1">>) \in DOMAIN localStorage
    /\ <<"c", "1">> \in DOMAIN cache
    /\ \E c \in CallIds : calls[c].state = "returned"

\* the step is a clearAllCaches(), which calls StorageCache.clear()
ClearStep == \E probeOk \in ProbeOutcomes(storageAvailable) :
                ClearAllCaches(probeOk)

\* the storage keys of other consumers
ForeignEntries(store) == (DOMAIN store) \ getAllCacheKeys(store)

\* the entry under key x is in storage after the step with the value it had
KeptInStorage(x) ==
    x \in DOMAIN localStorage' /\ localStorage'[x] = localStorage[x]

getItemKeys(store, key) == { getFullKey(key) } \cup getAllCacheKeys(store)

\* no value is read under a key that lacks the prefix
ReadsOnlyPrefixed ==
    \A key \in SeqKeys :
       \A x \in getItemKeys(localStorage, key) : startsWith(x, Prefix)

TrailingWildcard(pattern) ==
    /\ pattern # << >>
    /\ pattern[Len(pattern)] = Star
    /\ ~includesStar(SubSeq(pattern, 1, Len(pattern) - 1))

\* the step is an invalidateCachePattern(pattern)
PatternStep(pattern) ==
    \E probeOk \in ProbeOutcomes(storageAvailable) :
       InvalidateCachePattern(pattern, probeOk)

\* after the step no tier returns an entry for key k
GoneFromBothTiers(k) ==
    /\ k \notin DOMAIN cache'
    /\ ~StorageGet(localStorage', storageAvailable', TRUE, k, now).hit

\* after the step both tiers hold for key k what they held before
KeptInBothTiers(k) ==
    /\ k \in DOMAIN cache => k \in DOMAIN cache' /\ cache'[k] = cache[k]
    /\ getFullKey(k) \in DOMAIN localStorage => KeptInStorage(getFullKey(k))

\* C18: for a pattern made of a prefix followed by one trailing wildcard,
\* invalidatePattern removes from the memory tier and from the persistent
\* tier exactly the keys that start with the prefix; every other cached key
\* stays retrievable with its data.
C18_PrefixWildcard ==
    [][ \A pattern \in Patterns :
          TrailingWildcard(pattern) /\ PatternStep(pattern) =>
             \A k \in SeqKeys :
                IF startsWith(k, stripTrailingStars(pattern))
                THEN GoneFromBothTiers(k)
                ELSE KeptInBothTiers(k)
    ]_vars

\* C19: for a pattern without wildcard, invalidatePattern removes in either
\* tier exactly the key equal to the pattern; every other key, a key that
\* has the pattern as a proper prefix included, stays retrievable.
C19_ExactPattern ==
    [][ \A pattern \in Patterns :
          ~includesStar(pattern) /\ PatternStep(pattern) =>
             \A k \in SeqKeys :
                IF k = pattern
                THEN GoneFromBothTiers(k)
                ELSE KeptInBothTiers(k)
    ]_vars

\* two keys were fetched and the pattern equal to the shorter one was
\* invalidated: that key is gone from both tiers, the key that extends it is
\* still in both
C19_Witness ==
    /\ storageAvailable = "true"
    /\ \A c \in CallIds : calls[c].state = "returned"
    /\ <<"c", "1">> \notin DOMAIN cache
    /\ getFullKey(<<"c", "1">>) \notin DOMAIN localStorage
    /\ <<"c", "1", LineFeed>> \in DOMAIN cache
    /\ MemoryGet(cache, <<"c", "1", LineFeed>>, now).hit
    /\ StorageGet(localStorage, storageAvailable, TRUE,
                  <<"c", "1", LineFeed>>, now).hit
    /\ lastFetchTimestamps = EmptyMap

\* the step is an invalidateCache(key)
InvalidateStep(key) ==
    \E probeOk \in ProbeOutcomes(storageAvailable) :
       InvalidateCache(key, probeOk)

\* the last-fetch timestamp of key k is after the step what it was before
TimestampKept(k) ==
    IF k \in DOMAIN lastFetchTimestamps
    THEN /\ k \in DOMAIN lastFetchTimestamps'
         /\ lastFetchTimestamps'[k] = lastFetchTimestamps[k]
    ELSE k \notin DOMAIN lastFetchTimestamps'

\* no tier and no timestamp knows the key
AbsentEverywhere(k) ==
    /\ k \notin DOMAIN cache
    /\ getFullKey(k) \notin DOMAIN localStorage
    /\ k \notin DOMAIN lastFetchTimestamps

\* C20: invalidateCache(key) makes the key a miss in both tiers at once,
\* whatever TTL remains, and removes its last-fetch timestamp; the entries
\* and timestamps of the other keys and the pending-request registry are
\* unchanged, and the call changes nothing when the key is absent.
C20_InvalidateFrame ==
    [][ \A key \in SeqKeys :
          InvalidateStep(key) =>
             /\ GoneFromBothTiers(key)
             /\ ~MemoryGet(cache', key, now).hit
             /\ key \notin DOMAIN lastFetchTimestamps'
             /\ \A k \in SeqKeys \ { key } :
                   KeptInBothTiers(k) /\ TimestampKept(k)
             /\ DOMAIN cache' \subseteq DOMAIN cache
             /\ getAllCacheKeys(localStorage')
                   \subseteq getAllCacheKeys(localStorage)
             /\ pending' = pending
             /\ AbsentEverywhere(key) =>
                   /\ cache' = cache
                   /\ lastFetchTimestamps' = lastFetchTimestamps
                   /\ \A x \in getAllCacheKeys(localStorage) :
                         KeptInStorage(x)
    ]_vars

\* a key has been fetched and, before any time passed, invalidated: no tier
\* and no timestamp knows it, while the entry and the timestamp of another
\* key fetched meanwhile are in place
C20_Witness ==
    /\ pending = EmptyMap
    /\ now = 0
    /\ storageAvailable = "true"
    /\ fetchCount[<<"c", "1">>] = 1
    /\ AbsentEverywhere(<<"c", "1">>)
    /\ \A c \in CallIds : calls[c].state = "returned"
    /\ MemoryGet(cache, <<"u", "1">>, now).hit
    /\ StorageGet(localStorage, storageAvailable, TRUE, <<"u", "1">>, now).hit
    /\ <<"u", "1">> \in DOMAIN lastFetchTimestamps

\* C21 as stated: right after clearAllCaches() the memory tier holds no
\* entry, storage holds no key under the tier's prefix, the pending-request
\* registry is empty and the last-fetch map is empty.
C21_Original ==
    [][ ClearStep =>
          /\ cache' = EmptyMap
          /\ getAllCacheKeys(localStorage') = {}
          /\ pending' = EmptyMap
          /\ lastFetchTimestamps' = EmptyMap
    ]_vars

\* C21 amended: right after clearAllCaches() the memory tier, the registry
\* and the last-fetch map are empty; storage holds no key under the tier's
\* prefix when the availability probe has succeeded, and is left as it was
\* when the probe has failed.
C21_ClearAll ==
    [][ ClearStep =>
          /\ cache' = EmptyMap
          /\ pending' = EmptyMap
          /\ lastFetchTimestamps' = EmptyMap
          /\ IF storageAvailable' = "true"
             THEN getAllCacheKeys(localStorage') = {}
             ELSE localStorage' = localStorage
    ]_vars

\* clearAllCaches() has run after a fetch had returned and while another was
\* registered, with the probe failed: memory, registry and timestamps are
\* empty, the entry an earlier session left in storage is still there
C21_Witness ==
    /\ calls[1].state = "awaiting"
    /\ calls[2].state = "returned"
    /\ pending = EmptyMap
    /\ cache = EmptyMap
    /\ lastFetchTimestamps = EmptyMap
    /\ storageAvailable = "false"
    /\ getAllCacheKeys(localStorage) # {}

\* the text stored for key k cannot be decoded as JSON
Undecodable(k) ==
    /\ getFullKey(k) \in DOMAIN localStorage
    /\ ~localStorage[getFullKey(k)].parses

\* the step is a getCacheStatus(key), whose storageCache.has is a get
StatusStep(key) ==
    \E probeOk \in ProbeOutcomes(storageAvailable) :
       GetCacheStatus(key, probeOk)

\* C22: when the text stored under a prefixed key cannot be decoded as
\* JSON, StorageCache.get returns a miss and leaves the text in storage
\* unchanged: the lookup of a getCacheStatus keeps it, and a cachedFetch
\* never takes a value from it (a memory entry for the key can only come
\* from a fetch).
C22_UndecodableIsMiss ==
    [][ \A k \in SeqKeys :
          Undecodable(k) =>
             /\ \A probeOk \in ProbeOutcomes(storageAvailable) :
                   LET got == StorageGet(localStorage, storageAvailable,
                                         probeOk, k, now)
                   IN  /\ ~got.hit
                       /\ getFullKey(k) \in DOMAIN got.store
                       /\ got.store[getFullKey(k)]
                             = localStorage[getFullKey(k)]
             /\ StatusStep(k) => KeptInStorage(getFullKey(k))
             /\ MemoryWrites(k) => calls' # calls
    ]_vars

\* the tier is in use (the probe has passed), the key with the damaged text
\* has been fetched from the network, its write to storage failed, and the
\* damaged text is still in storage
C22_Witness ==
    /\ storageAvailable = "true"
    /\ Undecodable(<<"u", "1">>)
    /\ localStorage[getFullKey(<<"u", "1">>)] = CorruptRaw
    /\ <<"u", "1">> \in DOMAIN cache
    /\ \E c \in CallIds : calls[c].state = "returned"

\* what MemoryCache.get reports for key k at time t after the step
MemoryGetAfter(k, t) ==
    LET got == MemoryGet(cache', k, t)
    IN  [hit |-> got.hit, data |-> got.data, timestamp |-> got.timestamp]

\* what StorageCache.get reports for key k at time t after the step
StorageGetAfter(k, t) ==
    LET got == StorageGet(localStorage', storageAvailable', TRUE, k, t)
    IN  [hit |-> got.hit, data |-> got.data, timestamp |-> got.timestamp]

\* C23 as stated: in each tier a set(k, v, ttl) followed by a get(k) before
\* expiry reports a hit with data v and the timestamp of that set, also when
\* the key held an earlier entry.
C23_Original ==
    [][ \A c \in CallIds :
          ResumesFulfilled(c) =>
             LET r == calls[c].request
                 k == requests[r].key
                 v == requests[r].fetched
                 cfg == calls[c].config
             IN
             /\ \A t \in now..(now + cfg.memoryTtl) :
                   MemoryGetAfter(k, t)
                      = [hit |-> TRUE, data |-> v, timestamp |-> now]
             /\ \A t \in now..(now + cfg.storageTtl) :
                   StorageGetAfter(k, t)
                      = [hit |-> TRUE, data |-> v, timestamp |-> now]
    ]_vars

\* C23 amended: in the memory tier set then get before expiry reports a hit
\* with data v and the timestamp of that set, and a second set replaces the
\* entry as a whole.  In the persistent tier the same holds when the tier
\* is available and a write attempt of the set succeeds, with the data read
\* back as v when v survives JSON serialisation (NaN is read back as null).
C23_SetThenGet ==
    [][ \A c \in CallIds :
          ResumesFulfilled(c) =>
             LET r == calls[c].request
                 k == requests[r].key
                 v == requests[r].fetched
                 cfg == calls[c].config
             IN
             /\ \A t \in now..(now + cfg.memoryTtl) :
                   MemoryGetAfter(k, t)
                      = [hit |-> TRUE, data |-> v, timestamp |-> now]
             /\ cache'[k].ttl = cfg.memoryTtl
             /\ ret'.written =>
                   /\ \A t \in now..(now + cfg.storageTtl) :
                         LET got == StorageGetAfter(k, t) IN
                         /\ got.hit
                         /\ got.timestamp = now
                         /\ got.data = IF v = "NaN" THEN "null" ELSE v
                   /\ JSONParse(localStorage'[getFullKey(k)]).ttl
                         = cfg.storageTtl
    ]_vars

\* a second fetch of the key has been written over the entry of the first
\* in both tiers: both report the new data with the new timestamp
C23_Witness ==
    /\ ret.outcome = "returned"
    /\ ret.source = "network"
    /\ ret.written
    /\ now = 1
    /\ fetchCount[ret.key] = 2
    /\ lastFetchTimestamps[ret.key] = 1
    /\ MemoryGet(cache, ret.key, now).hit
    /\ MemoryGet(cache, ret.key, now).timestamp = 1
    /\ StorageGet(localStorage, storageAvailable, TRUE, ret.key, now).hit
    /\ StorageGet(localStorage, storageAvailable, TRUE, ret.key, now).timestamp
          = 1

\* MemoryCache.has
MemoryHas(c, key, t) == MemoryGet(c, key, t).hit

\* what getTimestamp returns: << n >> for the number n, << >> for undefined
NoTimestamp == << >>

\* a getTimestamp that does not look at the age of the entry
MemoryGetTimestamp_IgnoresExpiry(c, key, t) ==
    IF key \notin DOMAIN c THEN NoTimestamp ELSE << c[key].timestamp >>

\* MemoryCache.getTimestamp, which tests the expiry itself
MemoryGetTimestamp(c, key, t) ==
    IF key \notin DOMAIN c THEN NoTimestamp
    ELSE IF t - c[key].timestamp > c[key].ttl THEN NoTimestamp
    ELSE << c[key].timestamp >>

\* StorageCache.has
StorageHas(store, avail, probeOk, key, t) ==
    StorageGet(store, avail, probeOk, key, t).hit

\* StorageCache.getTimestamp: what it returns
StorageGetTimestampValue(store, avail, probeOk, key, t) ==
    LET fullKey == getFullKey(key)
        s1 == ProbeStore(store, avail, probeOk)
    IN  IF ProbeAvailable(avail, probeOk) # "true" THEN NoTimestamp
        ELSE IF fullKey \notin DOMAIN s1 THEN NoTimestamp
        ELSE IF ~s1[fullKey].parses THEN NoTimestamp
        ELSE IF StorageIsExpired(JSONParse(s1[fullKey]), t) THEN NoTimestamp
        ELSE << JSONParse(s1[fullKey]).timestamp >>

\* C24: in each tier, for every key and clock value, has(key) is true
\* exactly when get(key) reports a hit, and getTimestamp(key) returns the
\* timestamp of the entry exactly when get(key) reports a hit and undefined
\* otherwise.
C24_HasAndTimestamp ==
    \A k \in SeqKeys, t \in 0..(MaxTime + 1) :
       /\ LET got == MemoryGet(cache, k, t) IN
          /\ MemoryHas(cache, k, t) <=> got.hit
          /\ MemoryGetTimestamp(cache, k, t)
                = IF got.hit THEN << got.timestamp >> ELSE NoTimestamp
       /\ \A probeOk \in ProbeOutcomes(storageAvailable) :
             LET got == StorageGet(localStorage, storageAvailable, probeOk,
                                   k, t)
             IN
             /\ StorageHas(localStorage, storageAvailable, probeOk, k, t)
                   <=> got.hit
             /\ StorageGetTimestampValue(localStorage, storageAvailable,
                                         probeOk, k, t)
                   = IF got.hit THEN << got.timestamp >> ELSE NoTimestamp

\* a key whose memory entry has expired while its storage entry has not:
\* has is false and getTimestamp undefined in the memory tier, has is true
\* and getTimestamp the time of the write in the persistent tier
C24_Witness ==
    LET k == <<"c", "1", LineFeed>> IN
    /\ now = 1
    /\ storageAvailable = "true"
    /\ k \in DOMAIN cache
    /\ ~MemoryHas(cache, k, now)
    /\ MemoryGetTimestamp(cache, k, now) = NoTimestamp
    /\ StorageHas(localStorage, storageAvailable, TRUE, k, now)
    /\ StorageGetTimestampValue(localStorage, storageAvailable, TRUE, k, now)
          = << 0 >>

\* the step completes a cachedFetch whose network fetch succeeded
FetchSucceedsStep ==
    \E c \in CallIds :
       calls[c].state # "returned" /\ calls'[c].state = "returned"

\* the pattern selects key k for removal in the memory tier
SelectedByPattern(pattern, k) ==
    k \notin DOMAIN MemoryInvalidatePattern([x \in { k } |-> 0], pattern)

\* the step invalidates key k: by invalidateCache(k), or by an
\* invalidateCachePattern whose pattern selects k
InvalidatesKey(k) ==
    \/ InvalidateStep(k)
    \/ \E pattern \in Patterns :
          PatternStep(pattern) /\ SelectedByPattern(pattern, k)

\* C25: the last-fetch timestamp of a key changes only when a network fetch
\* of the key succeeds, when the key is invalidated or when all caches are
\* cleared; a cachedFetch answered from a tier and a cachedFetch whose
\* fetcher fails leave the whole map unchanged.
C25_TimestampFrame ==
    [][ \A k \in SeqKeys :
          \/ TimestampKept(k)
          \/ /\ FetchSucceedsStep
             /\ k \in DOMAIN lastFetchTimestamps'
             /\ lastFetchTimestamps'[k] = now
          \/ InvalidatesKey(k)
          \/ ClearStep
    ]_vars

\* C26 as stated: getLastFetchTimestamp(key) and getCacheStatus(key) leave
\* the memory tier, the persistent storage, the pending-request registry and
\* the last-fetch map unchanged.
C26_Original ==
    [][ \A key \in SeqKeys :
          StatusStep(key) \/ GetLastFetchTimestamp(key) =>
             /\ cache' = cache
             /\ localStorage' = localStorage
             /\ pending' = pending
             /\ lastFetchTimestamps' = lastFetchTimestamps
    ]_vars

\* the entry of key k that the step found expired in the memory tier
ExpiredInMemory(k) ==
    k \in DOMAIN cache /\ now - cache[k].timestamp > cache[k].ttl

\* the entry of key k that the step found expired in storage
ExpiredInStorage(k) ==
    getFullKey(k) \in ExpiredEntries(localStorage, now)

\* C26 amended: getLastFetchTimestamp(key) changes nothing.
\* getCacheStatus(key) leaves the registry, the last-fetch map and the
\* entries of every other key unchanged; it deletes the entry of the key
\* from a tier in which that entry has expired, and as first use of the
\* persistent tier it runs the probe, which removes __storage_test__.
C26_ReadsEvictExpired ==
    [][ \A key \in SeqKeys :
          /\ GetLastFetchTimestamp(key) =>
                /\ cache' = cache
                /\ localStorage' = localStorage
                /\ pending' = pending
                /\ lastFetchTimestamps' = lastFetchTimestamps
          /\ StatusStep(key) =>
                /\ pending' = pending
                /\ lastFetchTimestamps' = lastFetchTimestamps
                /\ cache' = IF ExpiredInMemory(key)
                            THEN MapDelete(cache, key) ELSE cache
                /\ DOMAIN localStorage' \subseteq DOMAIN localStorage
                /\ \A x \in DOMAIN localStorage :
                      \/ KeptInStorage(x)
                      \/ /\ x = getFullKey(key)
                         /\ ExpiredInStorage(key)
                         /\ storageAvailable' = "true"
                      \/ /\ x = TestKey
                         /\ storageAvailable = "null"
                         /\ storageAvailable' = "true"
    ]_vars

\* getCacheStatus has deleted the expired memory entry of a key that was
\* fetched earlier: the key still has its storage entry and its last-fetch
\* timestamp
C26_Witness ==
    LET k == <<"u", "1">> IN
    /\ now = 1
    /\ storageAvailable = "true"
    /\ k \notin DOMAIN cache
    /\ k \in DOMAIN lastFetchTimestamps
    /\ lastFetchTimestamps[k] = 0
    /\ StorageGet(localStorage, storageAvailable, TRUE, k, now).hit

\* ---- the API client over the cache ----

\* what a remote call can end in: a good response, an HTTP error status, a
\* failed workflow run, a response that does not parse, a network exception
HttpOutcomes ==
    { "ok", "httpError", "workflowFailed", "unparseable", "networkException" }

\* the two shapes of ApiResponse: { success: true, data } and
\* { success: false, error }
ApiSuccess == "success"
ApiFailure == "failure"

\* executeCommand: every failure, a thrown one included, becomes a returned
\* { success: false } response
ExecuteCommand(http) == IF http = "ok" THEN ApiSuccess ELSE ApiFailure

\* listContacts, getDashboard, getContactDetails: cachedFetch of the key with
\* a fetcher that resolves with the response of executeCommand
GetContactDetails(key, forceRefresh, config, probeOk, http, outs) ==
    SeqCachedFetch(key, forceRefresh, config, probeOk,
                   << "value", ExecuteCommand(http) >>, outs)

ClientInit ==
    /\ SeqInit
    /\ pending = EmptyMap

ClientNext ==
    \/ Tick
    \/ \E key \in Keys, forceRefresh \in BOOLEAN, config \in Configs,
          probeOk \in ProbeOutcomes(storageAvailable),
          http \in HttpOutcomes, outs \in WriteAttempts :
          GetContactDetails(key, forceRefresh, config, probeOk, http, outs)
    \/ \E key \in Keys, probeOk \in ProbeOutcomes(storageAvailable) :
          InvalidateCache(key, probeOk)

ClientSpec == ClientInit /\ [][ClientNext]_vars

\* the step is a client call for the key whose remote call failed
FailedApiCallStep(key) ==
    /\ fetchCount' # fetchCount
    /\ \E forceRefresh \in BOOLEAN, config \in Configs,
          probeOk \in ProbeOutcomes(storageAvailable),
          http \in HttpOutcomes \ { "ok" }, outs \in WriteAttempts :
          GetContactDetails(key, forceRefresh, config, probeOk, http, outs)

\* C27: when the remote call of listContacts, getDashboard or
\* getContactDetails fails, no entry and no last-fetch timestamp of the key
\* is written or overwritten in either tier: what each tier and the
\* timestamp map hold for the key afterwards is what they held before.
C27_FailureNotCached ==
    [][ \A key \in Keys :
          FailedApiCallStep(key) =>
             /\ key \in DOMAIN cache' =>
                   key \in DOMAIN cache /\ cache'[key] = cache[key]
             /\ getFullKey(key) \in DOMAIN localStorage' =>
                   /\ getFullKey(key) \in DOMAIN localStorage
                   /\ localStorage'[getFullKey(key)] =
                         localStorage[getFullKey(key)]
             /\ TimestampKept(key)
    ]_vars

\* ---- both tiers under one ttl ----

\* configurations that give both tiers the same ttl
SameTtlConfigs == { [memoryTtl |-> n, storageTtl |-> n] : n \in 0..MaxTime }

TierNext ==
    \/ Tick
    \/ \E key \in Keys, forceRefresh \in BOOLEAN, config \in SameTtlConfigs,
          probeOk \in ProbeOutcomes(storageAvailable),
          outcome \in FetchOutcomes :
          \E outs \in WriteAttemptsAfter(outcome) :
          SeqCachedFetch(key, forceRefresh, config, probeOk, outcome, outs)
    \/ \E key \in Keys, probeOk \in ProbeOutcomes(storageAvailable) :
          GetCacheStatus(key, probeOk)

TierSpec == ClientInit /\ [][TierNext]_vars

\* both tiers hold an entry of key k written at the same time with the same
\* ttl
WrittenAlike(k) ==
    /\ k \in DOMAIN cache
    /\ storageAvailable = "true"
    /\ getFullKey(k) \in DOMAIN localStorage
    /\ localStorage[getFullKey(k)].parses
    /\ JSONParse(localStorage[getFullKey(k)]).timestamp = cache[k].timestamp
    /\ JSONParse(localStorage[getFullKey(k)]).ttl = cache[k].ttl

\* C28: the memory tier's test now - timestamp > ttl and the persistent
\* tier's test now > timestamp + ttl give the same answer for every entry and
\* every clock value, so an entry written to both tiers at the same time with
\* the same ttl is a hit in one tier exactly when it is a hit in the other.
C28_SameExpiry ==
    /\ \A k \in DOMAIN cache :
          MemoryIsExpired(cache[k], now) = StorageIsExpired(cache[k], now)
    /\ \A x \in DOMAIN localStorage :
          localStorage[x].parses =>
             MemoryIsExpired(JSONParse(localStorage[x]), now)
                = StorageIsExpired(JSONParse(localStorage[x]), now)
    /\ \A k \in Keys :
          WrittenAlike(k) =>
             MemoryGet(cache, k, now).hit
                = StorageGet(localStorage, storageAvailable, TRUE, k, now).hit

\* an entry written to both tiers at time 0 with ttl 1 is read at time 1, the
\* last moment at which it is a hit
C28_Witness ==
    /\ now = 1
    /\ WrittenAlike(<<"c", "1">>)
    /\ cache[<<"c", "1">>].timestamp = 0
    /\ cache[<<"c", "1">>].ttl = 1
    /\ MemoryGet(cache, <<"c", "1">>, now).hit

\* key k is cached in both tiers
CachedInBothTiers(k) ==
    /\ k \in DOMAIN cache
    /\ storageAvailable = "true"
    /\ getFullKey(k) \in DOMAIN localStorage

\* C29: for every pattern (without wildcard, with a trailing wildcard, with a
\* wildcard elsewhere) and every set of keys cached in both tiers,
\* MemoryCache.invalidatePattern and StorageCache.invalidatePattern remove
\* the same keys.
C29_TiersRemoveAlike ==
    [][ \A pattern \in Patterns :
          PatternStep(pattern) =>
             \A k \in SeqKeys :
                CachedInBothTiers(k) =>
                   (k \notin DOMAIN cache'
                      <=> getFullKey(k) \notin DOMAIN localStorage')
    ]_vars

\* C30: invalidateCachePattern(p) removes the last-fetch timestamp of a key
\* exactly when p selects the key for removal in the memory tier, for a
\* pattern with or without wildcard; the pattern "*" removes all timestamps.
C30_TimestampsFollowMemory ==
    [][ \A pattern \in Patterns :
          PatternStep(pattern) =>
             /\ \A k \in DOMAIN lastFetchTimestamps :
                   IF SelectedByPattern(pattern, k)
                   THEN k \notin DOMAIN lastFetchTimestamps'
                   ELSE /\ k \in DOMAIN lastFetchTimestamps'
                        /\ lastFetchTimestamps'[k] = lastFetchTimestamps[k]
             /\ pattern = << Star >> => lastFetchTimestamps' = EmptyMap
    ]_vars

\* the keys that have a fetch whose registered promise has not settled
KeysWithUnsettledFetch == { k \in Keys : Unsettled(k) # {} }

\* C31: a registry entry for a key exists only if a fetcher invocation for
\* that key is still unsettled (the entry is the one of an unsettled fetch),
\* and getPendingCount() never exceeds the number of keys with an unsettled
\* fetch.
C31_EntryOnlyWhileUnsettled ==
    /\ \A k \in Keys :
          isPending(k) => pending[k] \in Unsettled(k)
    /\ getPendingCount <= Cardinality(KeysWithUnsettledFetch)

\* two fetches of the key are unsettled, the first dropped from the registry
\* by a clear, and the registry holds the one entry of the second
C31_Witness ==
    \E k \in Keys :
        /\ isPending(k)
        /\ pending[k] = 2
        /\ Unsettled(k) = {1, 2}
        /\ getPendingCount = 1

\* ---- progress ----

\* the promise returned by fetcher invocation r settles, either way
FetcherSettles(r) ==
    \/ \E value \in FetchResults : FetcherResolves(r, value)
    \/ \E error \in Errors : FetcherRejects(r, error)

\* caller c resumes from its await
Resumption(c) ==
    \E probeOk \in ProbeOutcomes(storageAvailable), outs \in WriteAttempts :
       Resume(c, probeOk, outs)

\* every fetcher invocation eventually settles, and the job queue runs every
\* promise reaction that is ready: the reaction of dedupe and the
\* continuation of every awaiting cachedFetch
LiveSpec ==
    /\ Spec
    /\ \A r \in RequestIds : WF_vars(FetcherSettles(r))
    /\ \A r \in RequestIds : WF_vars(Cleanup(r))
    /\ \A c \in CallIds : WF_vars(Resumption(c))

\* C32: if every fetcher invocation eventually settles, every cachedFetch
\* call that awaits a fetch eventually returns or rejects, and a registry
\* entry of the key is eventually gone, whether or not a caller still awaits
\* the result.
C32_CallsComplete ==
    /\ \A c \in CallIds :
          (calls[c].state = "awaiting")
             ~> (calls[c].state \in {"returned", "rejected"})
    /\ \A k \in Keys : isPending(k) ~> ~isPending(k)

\* the fetch has settled and the registry is empty while a caller has not
\* resumed yet
C32_Witness ==
    /\ pending = EmptyMap
    /\ \E r \in RequestIds :
          /\ requests[r].state = "done"
          /\ Resumed(r) = {}
          /\ Awaiting(r) # {}

\* C33: StorageCache.set deletes entries of other keys only in response to
\* quota-exceeded failures: when the first write succeeds or fails with
\* another error no stored entry is removed; when the retry after the sweep
\* of the expired entries succeeds or fails with another error, every
\* unexpired prefixed entry is still present.
C33_DeletesOnlyOnQuota ==
    \A key \in SeqKeys, probeOk \in ProbeOutcomes(storageAvailable),
       outs \in WriteAttempts :
       LET fullKey == getFullKey(key)
           result == StorageSet(localStorage, storageAvailable, probeOk,
                                key, "v2", 1, outs, now)
           kept(x) == /\ x \in DOMAIN result
                      /\ x # fullKey => result[x] = localStorage[x]
       IN
       /\ outs[1] # "quota" =>
             \A x \in getAllCacheKeys(localStorage) : kept(x)
       /\ outs[1] = "quota" /\ outs[2] # "quota" =>
             \A x \in LiveEntries(localStorage, now) : kept(x)

\* a fetched value was written to memory while the first write to storage
\* failed with an error other than quota-exceeded: storage holds no entry of
\* the key, and the expired entry of an earlier session is still there
C33_Witness ==
    /\ storageAvailable = "true"
    /\ now = 1
    /\ <<"u", "1">> \in DOMAIN cache
    /\ <<"u", "1">> \in DOMAIN lastFetchTimestamps
    /\ getFullKey(<<"u", "1">>) \notin DOMAIN localStorage
    /\ getFullKey(<<"c", "1">>) \in ExpiredEntries(localStorage, now)

\* ---- entries of another format under the tier's keys ----

\* JSON texts under a prefixed key that parse but are no complete cache
\* entry: a record without timestamp and ttl, and a record without ttl
OlderFormatRaws ==
    { [ parses |-> TRUE, hasData |-> TRUE, data |-> "old",
        timestamp |-> NotANumber, ttl |-> NotANumber ],
      [ parses |-> TRUE, hasData |-> TRUE, data |-> "old",
        timestamp |-> 0, ttl |-> NotANumber ] }

FormatStores ==
    InitialStores
       \cup { MapSet(ForeignStore, getFullKey(<<"c", "1">>), raw) :
                raw \in OlderFormatRaws }

FormatInit ==
    /\ now = 0
    /\ cache = EmptyMap
    /\ localStorage \in FormatStores
    /\ storageAvailable = "null"
    /\ pending = EmptyMap
    /\ lastFetchTimestamps = EmptyMap
    /\ requests = [r \in RequestIds |-> UnusedRequest]
    /\ calls = [c \in CallIds |-> IdleCall]
    /\ fetchCount = [k \in Keys |-> 0]
    /\ clearedInFlight = [k \in Keys |-> FALSE]
    /\ ret = NoRet

FormatNext ==
    \/ Tick
    \/ \E key \in Keys, forceRefresh \in BOOLEAN, config \in Configs,
          probeOk \in ProbeOutcomes(storageAvailable),
          outcome \in FetchOutcomes :
          \E outs \in WriteAttemptsAfter(outcome) :
          SeqCachedFetch(key, forceRefresh, config, probeOk, outcome, outs)
    \/ \E key \in Keys, probeOk \in ProbeOutcomes(storageAvailable) :
          GetCacheStatus(key, probeOk)

FormatSpec == FormatInit /\ [][FormatNext]_vars

\* C34: StorageCache.get (and has) reports a hit only for a stored value
\* that decodes to a record with data, timestamp and ttl and that is not
\* expired; a value that parses as JSON but lacks timestamp or ttl is
\* reported as a miss.
C34_HitOnlyForCompleteEntry ==
    \A k \in Keys, probeOk \in ProbeOutcomes(storageAvailable) :
       StorageHas(localStorage, storageAvailable, probeOk, k, now) =>
          LET raw == localStorage[getFullKey(k)] IN
          /\ raw.parses
          /\ raw.hasData
          /\ raw.timestamp # NotANumber
          /\ raw.ttl # NotANumber
          /\ now <= raw.timestamp + raw.ttl

\* ---- a fetch in flight across an invalidation ----

\* the fetcher invocation that was in flight when the key was invalidated
EarlierFetch == [UnusedRequest EXCEPT !.state = "inflight",
                                      !.key = <<"c", "1">>]

\* the cachedFetch call that started it
EarlierCall(forceRefresh) ==
    [IdleCall EXCEPT !.state = "awaiting", !.forceRefresh = forceRefresh,
                     !.config = [memoryTtl |-> 0, storageTtl |-> 1],
                     !.request = 1]

\* the state in which invalidateCache(key) returns while a cachedFetch of
\* the key awaits its fetch: the tiers and the timestamps as invalidateCache
\* leaves them, the registry untouched
InvalidatedInit ==
    \E probeOk \in BOOLEAN, forceRefresh \in BOOLEAN :
       /\ now = 0
       /\ cache = MemoryInvalidate(EmptyMap, <<"c", "1">>)
       /\ localStorage = StorageInvalidate(ForeignStore, "null", probeOk,
                                           <<"c", "1">>)
       /\ storageAvailable = ProbeAvailable("null", probeOk)
       /\ lastFetchTimestamps = MapDelete(EmptyMap, <<"c", "1">>)
       /\ pending = [k \in Keys |-> 1]
       /\ requests = [r \in RequestIds |->
                        IF r = 1 THEN EarlierFetch ELSE UnusedRequest]
       /\ calls = [c \in CallIds |->
                     IF c = 1 THEN EarlierCall(forceRefresh) ELSE IdleCall]
       /\ fetchCount = [k \in Keys |-> 1]
       /\ clearedInFlight = [k \in Keys |-> FALSE]
       /\ ret = NoRet

InvalidatedSpec == InvalidatedInit /\ [][Next]_vars

\* the step leaves the key without entry in the tier, or with the entry it
\* had
NotWrittenToMemory(k) ==
    k \in DOMAIN cache' => k \in DOMAIN cache /\ cache'[k] = cache[k]

NotWrittenToStorage(k) ==
    getFullKey(k) \in DOMAIN localStorage' =>
       /\ getFullKey(k) \in DOMAIN localStorage
       /\ localStorage'[getFullKey(k)] = localStorage[getFullKey(k)]

\* C35: after invalidateCache(key) has returned, neither tier ever holds for
\* the key a value produced by a fetcher invocation that started before the
\* invalidation: the callers of the fetch that was in flight write nothing
\* into the tiers when they resume.
C35_NoStaleRepopulation ==
    [][ \A c \in CallIds :
          Resumes(c) /\ calls[c].request = 1 =>
             /\ NotWrittenToMemory(requests[1].key)
             /\ NotWrittenToStorage(requests[1].key)
    ]_vars

\* ---- a fetch in flight across a clear ----

\* the state in which clearAllCaches() returns while a cachedFetch awaits its
\* fetch: both tiers, the registry and the timestamps as the clear leaves
\* them; the fetch and its caller are still there
ClearedInit ==
    \E probeOk \in BOOLEAN, forceRefresh \in BOOLEAN :
       /\ now = 0
       /\ cache = MemoryClear(EmptyMap)
       /\ localStorage = StorageClear(ForeignStore, "null", probeOk)
       /\ storageAvailable = ProbeAvailable("null", probeOk)
       /\ pending = DeduplicatorClear([k \in Keys |-> 1])
       /\ lastFetchTimestamps = EmptyMap
       /\ requests = [r \in RequestIds |->
                        IF r = 1 THEN EarlierFetch ELSE UnusedRequest]
       /\ calls = [c \in CallIds |->
                     IF c = 1 THEN EarlierCall(forceRefresh) ELSE IdleCall]
       /\ fetchCount = [k \in Keys |-> 1]
       /\ clearedInFlight = [k \in Keys |-> TRUE]
       /\ ret = NoRet

ClearedSpec == ClearedInit /\ [][Next]_vars

\* a cachedFetch call issued after the clear has fetched and returned
LaterCallSucceeded ==
    \E c \in CallIds \ { 1 } : calls[c].state = "returned"

\* C36: after clearAllCaches() has returned, both tiers and the last-fetch
\* map stay empty until a cachedFetch call issued after the clear succeeds:
\* the settlement of the fetch that was in flight at the clear writes no
\* entry and no timestamp.
C36_EmptyUntilLaterFetch ==
    ~LaterCallSucceeded =>
       /\ cache = EmptyMap
       /\ getAllCacheKeys(localStorage) = {}
       /\ lastFetchTimestamps = EmptyMap

\* a successful fetch of key k has settled and no caller of it has resumed:
\* its result is not yet written into the memory tier
SettledNotYetWritten(k) ==
    \E r \in RequestIds :
       /\ requests[r].key = k
       /\ requests[r].state = "done"
       /\ requests[r].value[1] = "value"
       /\ Awaiting(r) # {}
       /\ Resumed(r) = {}

\* a new unforced cachedFetch of key k would find no registry entry and no
\* tier that answers, and so invoke the fetcher
FindsNeitherEntry(k) ==
    /\ ~isPending(k)
    /\ ~MemoryAnswers(MemoryGet(cache, k, now), FALSE)
    /\ \E probeOk \in ProbeOutcomes(storageAvailable) :
          ~StorageAnswers(StorageGet(localStorage, storageAvailable, probeOk,
                                     k, now), FALSE)

\* C37: between the settlement of a successful fetch of a key and the write
\* of its result into the memory tier there is no state in which a new
\* unforced cachedFetch of the key finds neither a registry entry nor a
\* cached entry: a call arriving right after a successful settlement never
\* causes a second fetcher invocation.
C37_NoGapAfterSettlement ==
    \A k \in Keys : SettledNotYetWritten(k) => ~FindsNeitherEntry(k)

\* C38: the settlement of a fetch removes from the registry only the entry
\* that was registered for that fetch; it never removes the entry that a
\* later dedupe call registered for the same key, for example after clear().
C38_RemovesOwnEntryOnly ==
    [][ \A r \in RequestIds :
          Settles(r) =>
             \A k \in DOMAIN pending :
                pending[k] # r =>
                   k \in DOMAIN pending' /\ pending'[k] = pending[k]
    ]_vars

\* ---- the age of a served value ----

\* the clock runs one step past MaxTime, so that a value can outlive both
\* TTLs of the configuration
LastAge == MaxTime + 1

\* the values of a fetcher that returns a different value at every time
Stamps == << "f0", "f1", "f2", "f3" >>

\* what the fetcher returns at time t
FetchedAt(t) == Stamps[t + 1]

\* the time at which the fetcher returned the value
FetchTimeOf(data) == CHOOSE t \in 0..LastAge : FetchedAt(t) = data

AgeTick ==
    /\ now < LastAge
    /\ now' = now + 1
    /\ ret' = NoRet
    /\ UNCHANGED << cache, localStorage, storageAvailable, pending,
                    lastFetchTimestamps, requests, calls, fetchCount,
                    clearedInFlight >>

AgeInit ==
    /\ ClientInit
    /\ localStorage = ForeignStore

AgeNext ==
    \/ AgeTick
    \/ \E key \in Keys, forceRefresh \in BOOLEAN, config \in Configs,
          probeOk \in ProbeOutcomes(storageAvailable),
          outcome \in { << "value", FetchedAt(now) >>, << "error", "e1" >> } :
          \E outs \in WriteAttemptsAfter(outcome) :
          SeqCachedFetch(key, forceRefresh, config, probeOk, outcome, outs)
    \/ \E key \in Keys, probeOk \in ProbeOutcomes(storageAvailable) :
          InvalidateCache(key, probeOk)
    \/ \E key \in Keys, probeOk \in ProbeOutcomes(storageAvailable) :
          GetCacheStatus(key, probeOk)

AgeSpec == AgeInit /\ [][AgeNext]_vars

\* the value an unforced cachedFetch of key k would return from a tier now
ServedFromTier(k, probeOk) ==
    LET mem == MemoryGet(cache, k, now)
        sto == StorageGet(localStorage, storageAvailable, probeOk, k, now)
    IN  IF MemoryAnswers(mem, FALSE) THEN << mem.data >>
        ELSE IF StorageAnswers(sto, FALSE) THEN << sto.data >>
        ELSE << >>

\* C39: with one TTL pair used for a key, an unforced cachedFetch never
\* returns from the memory tier or from the persistent tier a value whose
\* network fetch completed more than storageTtl + memoryTtl earlier.
C39_AgeBound ==
    \A k \in Keys, config \in Configs,
       probeOk \in ProbeOutcomes(storageAvailable) :
       \A d \in { ServedFromTier(k, probeOk)[i] :
                    i \in 1..Len(ServedFromTier(k, probeOk)) } :
          now - FetchTimeOf(d) <= config.storageTtl + config.memoryTtl

\* a value fetched at time 0 was promoted from storage at time 1, the last
\* moment of its storage TTL: the memory tier serves it under a TTL that
\* started at time 1
C39_Witness ==
    /\ now = 1
    /\ <<"c", "1">> \in DOMAIN cache
    /\ cache[<<"c", "1">>].data = FetchedAt(0)
    /\ cache[<<"c", "1">>].timestamp = 1
    /\ ServedFromTier(<<"c", "1">>, TRUE) = << FetchedAt(0) >>

====
